---- MODULE Spec2Model ----
(***************************************************************************)
(* A model of loopert's planning / guardrail / execution core:             *)
(*   packages/core/index.js  (runPocSession and its helpers)               *)
(*   packages/llm/index.js   (planGoal, validatePlan, PLAN_SCHEMA)         *)
(*                                                                         *)
(* Numbers that are coordinates are fixed-point, in thousandths: the       *)
(* fraction 0.1 is 100, the pixel 1280 is 1280000.  A coordinate is a      *)
(* record [fin, v]; fin = FALSE stands for a non-finite number (NaN).      *)
(* A point is <<x, y>>; the empty tuple stands for a missing / null point. *)
(* An element id is a tuple of characters ("" is the empty tuple).         *)
(***************************************************************************)
EXTENDS Integers, Sequences, FiniteSets, TLC

VARIABLES
    pc,             \* position of runPocSession
    confirmPlan,    \* options.confirmPlan was supplied
    profile,        \* options.profile (requested profile name)
    config,         \* what options.configPath leads to
    precomputedPlan,\* options.precomputedPlan: <<>> or <<plan>>
    goalOk,         \* options.goal is a non-empty string
    killSignal,     \* "none" (not supplied) | "armed" | "aborted"
    toolCatalog,    \* names of the catalog in force
    guardrails,     \* result of loadGuardrails
    browser,        \* "none" | "open" | "closed" (or closed wrongly, see close)
    attempt,        \* inference requests made by planGoal
    plan,           \* the plan variable of runPocSession
    notices,        \* skip notices emitted by normalizeCoordinates
    policyCheck,    \* <<>> or <<result of validatePlanAgainst>>
    stages,         \* pipeline stages passed, in order
    idx,            \* index of the dispatch loop (0-based, as in the code)
    dispatched,     \* steps handed to executeStep, in order: [idx, step]
    stepResults,    \* how each executeStep call ended: "ok", "killed" or the error
    result,         \* results returned by runPocSession, in order
    thrown,         \* runPocSession rejected instead of returning
    confirmOriginChangeFn, \* options.confirmOriginChange was supplied
    currentOrigin,  \* context.currentOrigin: "" (null) or an origin
    originAsked,    \* calls of the confirmOriginChange hook: [from, to, allowed]
    driverCalls,    \* primitives executeStep invoked: [idx, call]
    pageOrigin,     \* the origin of the document the page shows: "" is about:blank
    lastRaw,        \* planGoal's lastRaw: the last response received
    validateErrors, \* validate.errors of the compiled schema: <<>> is null
    chatThrown,     \* an inference request of planGoal threw
    messages,       \* planGoal's messages: the conversation of its next request
    now,            \* Date.now(), in ms
    lastActionAt,   \* lastActionAt.value
    timeline,       \* when each step that passed the kill check ran: [idx, start, end]
    waitSlices,     \* the slices waited by the wait_for_idle step in progress
    vIn,            \* input of the last stand-alone validatePlanAgainst call
    vOut,           \* its result
    nIn,            \* input of the last stand-alone normalizeCoordinates call
    nOut,           \* its result
    sIn,            \* input of the last stand-alone validatePlan call
    sOut,           \* its result
    ralph           \* the loop runner of scripts/ralph-loop.js: its locals and files

\* The loop runner before it is started.
NoRalph == <<>>

genVars == <<attempt, lastRaw, validateErrors, chatThrown, messages>>
execVars == <<currentOrigin, originAsked, driverCalls, pageOrigin>>
timeVars == <<now, lastActionAt, timeline, waitSlices>>
pureVars == <<vIn, vOut, nIn, nOut, sIn, sOut, ralph>>

runVars == <<pc, confirmPlan, profile, config, precomputedPlan, goalOk, killSignal,
             toolCatalog, guardrails, browser, plan, notices, policyCheck,
             stages, idx, dispatched, stepResults, result, thrown,
             confirmOriginChangeFn, genVars, execVars, timeVars>>

vars == <<runVars, pureVars>>

(***************************************************************************)
(* Bounds of the model.                                                    *)
(***************************************************************************)
MaxPlanLen == 2

(***************************************************************************)
(* Tool vocabulary and catalogs.                                           *)
(***************************************************************************)
ALLOWED_TOOLS ==
    {"navigate", "click", "click_point", "drag", "type", "hotkey", "long_press",
     "scroll", "wait_for_idle", "snapshot", "fetch", "read_file", "write_file", "shell"}

BASE_TOOL_CATALOG ==
    {"navigate", "click", "click_point", "drag", "type", "hotkey", "long_press",
     "scroll", "wait_for_idle", "snapshot"}

EXTENDED_TOOL_CATALOG == {"shell", "read_file", "write_file", "fetch"}

buildToolCatalog(profileName) ==
    IF profileName \in {"pro", "auto", "unleashed"}
    THEN BASE_TOOL_CATALOG \cup EXTENDED_TOOL_CATALOG
    ELSE BASE_TOOL_CATALOG

DEFAULT_TOOL_CATALOG == BASE_TOOL_CATALOG

(***************************************************************************)
(* JavaScript values of the wire fields that any JSON value can fill       *)
(* (plan_id, autonomy_level, estimated_risk, confidence and their          *)
(* aliases).  A value is a record tagged with its typeof; a number is in   *)
(* thousandths (0.6 is 600), fin = FALSE is NaN or an infinity; a string   *)
(* is a tuple of characters.                                               *)
(***************************************************************************)
STR_ASSISTED == <<"a", "s", "s", "i", "s", "t", "e", "d">>
STR_SEMI_AUTO == <<"s", "e", "m", "i", "_", "a", "u", "t", "o">>
STR_AUTO == <<"a", "u", "t", "o">>
STR_LOW == <<"l", "o", "w">>
STR_MEDIUM == <<"m", "e", "d", "i", "u", "m">>
STR_HIGH == <<"h", "i", "g", "h">>

Undefined == [type |-> "undefined"]
Null == [type |-> "null"]
Str(s) == [type |-> "string", s |-> s]
Bool(b) == [type |-> "boolean", b |-> b]
JsNum(n) == [type |-> "number", fin |-> TRUE, v |-> n]
JsNaN == [type |-> "number", fin |-> FALSE, v |-> 0]
EmptyArray == [type |-> "object", class |-> "Array"]
EmptyObject == [type |-> "object", class |-> "Object"]

\* obj[key]: a property that is not there reads as undefined.
field(obj, key) == IF key \in DOMAIN obj THEN obj[key] ELSE Undefined

\* ToBoolean.
truthy(value) ==
    CASE value.type \in {"undefined", "null"} -> FALSE
      [] value.type = "string" -> value.s # <<>>
      [] value.type = "boolean" -> value.b
      [] value.type = "number" -> value.fin /\ value.v # 0
      [] OTHER -> TRUE

\* a || b and a ?? b.
or(a, b) == IF truthy(a) THEN a ELSE b
nullish(a, b) == IF a.type \in {"undefined", "null"} THEN b ELSE a

\* StringToNumber on the strings of the model: blank is 0, a numeric
\* literal is its value, anything else is NaN.
StringToNumber(s) ==
    CASE s \in {<<>>, <<" ">>} -> JsNum(0)
      [] s = <<"0", ".", "5">> -> JsNum(500)
      [] s = <<"7">> -> JsNum(7000)
      [] s \in {STR_HIGH, <<"N", "a", "N">>} -> JsNaN

\* Number(value).
Number(value) ==
    CASE value.type = "undefined" -> JsNaN
      [] value.type = "null" -> JsNum(0)
      [] value.type = "boolean" -> IF value.b THEN JsNum(1000) ELSE JsNum(0)
      [] value.type = "number" -> value
      [] value.type = "string" -> StringToNumber(value.s)
      [] value = EmptyArray -> JsNum(0)
      [] value = EmptyObject -> JsNaN

(***************************************************************************)
(* Guardrail profiles.  A profile read from a document may lack fields:    *)
(* max_steps = 0 stands for an absent (or zero, equally falsy) max_steps,  *)
(* blocked_tools = {} for an absent list, allow_password holds the value   *)
(* of (allow_password !== false), the only test the code makes of it.      *)
(***************************************************************************)
Profile(max, blocked, pw, origin) ==
    [max_steps |-> max, blocked_tools |-> blocked, allow_password |-> pw,
     require_origin_confirmation |-> origin]

\* A profile that states its autonomy_level.
Autonomy(prof, level) ==
    [k \in DOMAIN prof \cup {"autonomy_level"} |->
        IF k = "autonomy_level" THEN Str(level) ELSE prof[k]]

DEFAULT_GUARDRAILS ==
    [source |-> "built-in-default",
     order |-> <<"default", "pro", "auto", "unleashed", "mobile">>,
     profiles |->
        ("default" :> Autonomy(Profile(12, {"shell", "write_file"}, FALSE, TRUE), STR_ASSISTED)) @@
        ("pro" :> Autonomy(Profile(25, {"shell", "write_file"}, FALSE, TRUE), STR_SEMI_AUTO)) @@
        ("auto" :> Autonomy(Profile(30, {}, TRUE, FALSE), STR_AUTO)) @@
        ("unleashed" :> Autonomy(Profile(40, {}, TRUE, FALSE), STR_AUTO)) @@
        ("mobile" :> Autonomy(Profile(25, {"shell", "write_file"}, FALSE, TRUE), STR_SEMI_AUTO))]

\* The profile the code uses when the document defines none: {}.
EmptyProfile == Profile(0, {}, TRUE, FALSE)

\* Guardrail documents a configPath can lead to.
TightDoc ==
    [source |-> "file",
     order |-> <<"default", "pro">>,
     profiles |->
        ("default" :> Profile(1, {"click_point"}, FALSE, TRUE)) @@
        ("pro" :> Profile(2, {}, TRUE, FALSE))]

NoProfilesDoc == [source |-> "file", order |-> <<>>, profiles |-> <<>>]

\* options.configPath: absent, a file that does not exist, a file that does
\* not parse, or a file that parses to a document.
Configs ==
    {[kind |-> "none", doc |-> NoProfilesDoc],
     [kind |-> "missing", doc |-> NoProfilesDoc],
     [kind |-> "parse_error", doc |-> NoProfilesDoc],
     [kind |-> "ok", doc |-> TightDoc],
     [kind |-> "ok", doc |-> NoProfilesDoc]}

\* The fallback without the tag of the parse error.
Mutant_loadGuardrailDoc_untagged(cfg) ==
    IF cfg.kind = "ok" THEN cfg.doc ELSE DEFAULT_GUARDRAILS

loadGuardrailDoc(cfg) ==
    CASE cfg.kind = "ok" -> cfg.doc
      [] cfg.kind = "parse_error" ->
            [DEFAULT_GUARDRAILS EXCEPT !.source = "file (parse_error)"]
      [] OTHER -> DEFAULT_GUARDRAILS

selectGuardrailProfile(doc, profileName) ==
    IF profileName \in DOMAIN doc.profiles
    THEN [profileName |-> profileName, profile |-> doc.profiles[profileName]]
    ELSE IF "default" \in DOMAIN doc.profiles
    THEN [profileName |-> "default", profile |-> doc.profiles["default"]]
    ELSE IF Len(doc.order) > 0
    THEN [profileName |-> doc.order[1], profile |-> doc.profiles[doc.order[1]]]
    ELSE [profileName |-> profileName, profile |-> EmptyProfile]

loadGuardrails(cfg, profileName) ==
    LET doc == loadGuardrailDoc(cfg)
        sel == selectGuardrailProfile(doc, profileName)
    IN  [source |-> doc.source, profileName |-> sel.profileName, profile |-> sel.profile]

ProfileNames == {"default", "pro", "auto", "unleashed", "mobile"}

\* Line 722: the autonomy level runPocSession hands to planGoal, which
\* hands it to validatePlanSchema (llm 317, 345).
capabilityProfile(g) == or(field(g.profile, "autonomy_level"), Str(STR_ASSISTED))

(***************************************************************************)
(* Strings as tuples of characters.                                        *)
(***************************************************************************)
toLowerCase(s) ==
    [i \in 1..Len(s) |->
        CASE s[i] = "P" -> "p"
          [] s[i] = "W" -> "w"
          [] s[i] = "D" -> "d"
          [] s[i] = "A" -> "a"
          [] s[i] = "S" -> "s"
          [] s[i] = "O" -> "o"
          [] s[i] = "R" -> "r"
          [] s[i] = "L" -> "l"
          [] s[i] = "H" -> "h"
          [] s[i] = "I" -> "i"
          [] s[i] = "G" -> "g"
          [] s[i] = "F" -> "f"
          [] s[i] = "N" -> "n"
          [] OTHER -> s[i]]

includes(s, sub) ==
    \E i \in 1..(Len(s) - Len(sub) + 1) : SubSeq(s, i, i + Len(sub) - 1) = sub

STR_PASSWORD == <<"p", "a", "s", "s", "w", "o", "r", "d">>
STR_PWD == <<"p", "w", "d">>

ID_NAME == <<"n", "a", "m", "e">>
ID_USER_PWD == <<"u", "P", "w", "d">>
ID_PASSWORD == <<"P", "A", "S", "S", "W", "O", "R", "D", "2">>
ID_PASS == <<"p", "a", "s", "s">>
ID_NONE == <<>>

(***************************************************************************)
(* Coordinates and points.                                                 *)
(***************************************************************************)
Num(n) == [fin |-> TRUE, v |-> n]
NaN == [fin |-> FALSE, v |-> 0]
NoPoint == <<>>
Max(a, b) == IF a >= b THEN a ELSE b
Min(a, b) == IF a <= b THEN a ELSE b
Abs(a) == IF a >= 0 THEN a ELSE 0 - a

\* The fallback viewport of the code, in pixels.
ViewportWidth == 1280
ViewportHeight == 720
Viewport == [width |-> ViewportWidth, height |-> ViewportHeight]

\* A page is what its viewportSize() returns: <<>> (null) or <<width, height>>.
NoViewport == <<>>
\* The page runPocSession opens has Playwright's default viewport.
DefaultPage == <<ViewportWidth, ViewportHeight>>

\* page.viewportSize() || { width: 1280, height: 720 }
viewportSize(page) ==
    IF page = NoViewport
    THEN Viewport
    ELSE [width |-> page[1], height |-> page[2]]

\* resolvePointAbs taking every point as pixels.
Mutant_resolvePointAbs_noScale(point, page) ==
    IF point = NoPoint \/ ~point[1].fin \/ ~point[2].fin
    THEN NoPoint
    ELSE <<Num(Max(0, point[1].v)), Num(Max(0, point[2].v))>>

resolvePointAbs(point, page) ==
    IF point = NoPoint \/ ~point[1].fin \/ ~point[2].fin
    THEN NoPoint
    ELSE LET size == viewportSize(page)
             x == point[1].v
             y == point[2].v
             nx == IF Abs(x) <= 1000 /\ Abs(y) <= 1000 THEN x * size.width ELSE x
             ny == IF Abs(x) <= 1000 /\ Abs(y) <= 1000 THEN y * size.height ELSE y
         IN  <<Num(Max(0, nx)), Num(Max(0, ny))>>

\* clipPointToViewport without the upper clip.
Mutant_clipPointToViewport_noUpper(point, viewport) ==
    IF point = NoPoint
    THEN NoPoint
    ELSE <<Num(Max(point[1].v, 0)), Num(Max(point[2].v, 0))>>

clipPointToViewport(point, viewport) ==
    IF point = NoPoint
    THEN NoPoint
    ELSE <<Num(Min(Max(point[1].v, 0), viewport.width * 1000)),
           Num(Min(Max(point[2].v, 0), viewport.height * 1000))>>

(***************************************************************************)
(* Steps and plans.  A step is [tool, id, point, from, to, url, timeoutMs]: *)
(* the tool and args.id, args.point, args.from, args.to, args.url,         *)
(* args.timeoutMs.                                                         *)
(***************************************************************************)
NoUrl == ""

\* args.timeoutMs: <<>> when absent, else <<ms>>.
NoTimeout == <<>>

\* args.keys of the steps that do not say otherwise; args.cmd and args.path
\* are strings, "" when they are missing.
DefaultKeys == <<"Control", "a">>

Step(tool, id, point) ==
    [tool |-> tool, id |-> id, point |-> point, from |-> NoPoint, to |-> NoPoint,
     url |-> NoUrl, timeoutMs |-> NoTimeout, keys |-> DefaultKeys, cmd |-> "ls",
     path |-> "notes.txt"]

DragStep(from, to) ==
    [tool |-> "drag", id |-> ID_NONE, point |-> NoPoint, from |-> from, to |-> to,
     url |-> NoUrl, timeoutMs |-> NoTimeout, keys |-> DefaultKeys, cmd |-> "ls",
     path |-> "notes.txt"]

\* wait_for_idle with args.timeoutMs.
WaitStep(timeoutMs) ==
    [tool |-> "wait_for_idle", id |-> ID_NONE, point |-> NoPoint, from |-> NoPoint,
     to |-> NoPoint, url |-> NoUrl, timeoutMs |-> timeoutMs, keys |-> DefaultKeys,
     cmd |-> "ls", path |-> "notes.txt"]

\* navigate to a URL; of the URL, its origin is modelled.
NavigateStep(url) ==
    [tool |-> "navigate", id |-> ID_NONE, point |-> NoPoint, from |-> NoPoint,
     to |-> NoPoint, url |-> url, timeoutMs |-> NoTimeout, keys |-> DefaultKeys,
     cmd |-> "ls", path |-> "notes.txt"]

\* The steps plans are built from.
StepPool ==
    {Step("click", ID_NAME, NoPoint),
     Step("type", ID_NAME, NoPoint),
     Step("type", ID_USER_PWD, NoPoint),
     Step("shell", ID_NONE, NoPoint),
     Step("fetch", ID_NONE, NoPoint),
     Step("eval_js", ID_NONE, NoPoint),
     Step("click_point", ID_NONE, <<Num(100), Num(200)>>),
     Step("click_point", ID_NONE, <<NaN, Num(5000)>>)}

SeqsUpTo(S, n) == UNION {[1..k -> S] : k \in 0..n}

\* A plan is [steps]; the other fields of the wire shape are not modelled here.
PlanPool == {[steps |-> s] : s \in SeqsUpTo(StepPool, MaxPlanLen)}

\* A value that is no plan for validatePlanAgainst: it has no steps array.
NotAPlan == [reasoning_summary |-> "no steps"]

(***************************************************************************)
(* Guardrail validator: validatePlanAgainst.                               *)
(***************************************************************************)
IsError(r) == "error" \in DOMAIN r

passwordLike(step) ==
    LET id == toLowerCase(step.id)
    IN  includes(id, STR_PASSWORD) \/ includes(id, STR_PWD)

\* checkStep without the blocked_tools test.
Mutant_checkStep_noBlocked(i, step, prof, allowedTools, blockedTools) ==
    IF step.tool \notin allowedTools
    THEN <<[error |-> "unknown_tool", details |-> [step |-> i, tool |-> step.tool]]>>
    ELSE IF prof.allow_password = FALSE /\ step.tool = "type" /\ passwordLike(step)
    THEN <<[error |-> "password_field_blocked", details |-> [step |-> i]]>>
    ELSE <<>>

\* The body of the for loop, for one step: <<>> when the step passes.
checkStep(i, step, prof, allowedTools, blockedTools) ==
    IF step.tool \notin allowedTools
    THEN <<[error |-> "unknown_tool", details |-> [step |-> i, tool |-> step.tool]]>>
    ELSE IF step.tool \in blockedTools
    THEN <<[error |-> "tool_blocked", details |-> [step |-> i, tool |-> step.tool]]>>
    ELSE IF prof.allow_password = FALSE /\ step.tool = "type" /\ passwordLike(step)
    THEN <<[error |-> "password_field_blocked", details |-> [step |-> i]]>>
    ELSE <<>>

RECURSIVE checkSteps(_, _, _, _, _)
checkSteps(steps, i, prof, allowedTools, blockedTools) ==
    IF i >= Len(steps)
    THEN [ok |-> TRUE]
    ELSE LET r == checkStep(i, steps[i + 1], prof, allowedTools, blockedTools)
         IN  IF r # <<>> THEN r[1]
             ELSE checkSteps(steps, i + 1, prof, allowedTools, blockedTools)

\* validatePlanAgainst with the ceiling off by one (>= for >).
Mutant_validatePlanAgainst_offByOne(p, prof, catalog) ==
    IF "steps" \notin DOMAIN p
    THEN [error |-> "invalid_plan", details |-> "Plan missing steps array"]
    ELSE IF prof.max_steps # 0 /\ Len(p.steps) >= prof.max_steps
    THEN [error |-> "max_steps_exceeded",
          details |-> [max |-> prof.max_steps, actual |-> Len(p.steps)]]
    ELSE checkSteps(p.steps, 0, prof, catalog, prof.blocked_tools)

\* validatePlanAgainst with the per-step checks ahead of the step count.
Mutant_validatePlanAgainst_stepsFirst(p, prof, catalog) ==
    IF "steps" \notin DOMAIN p
    THEN [error |-> "invalid_plan", details |-> "Plan missing steps array"]
    ELSE IF IsError(checkSteps(p.steps, 0, prof, catalog, prof.blocked_tools))
    THEN checkSteps(p.steps, 0, prof, catalog, prof.blocked_tools)
    ELSE IF prof.max_steps # 0 /\ Len(p.steps) > prof.max_steps
    THEN [error |-> "max_steps_exceeded",
          details |-> [max |-> prof.max_steps, actual |-> Len(p.steps)]]
    ELSE [ok |-> TRUE]

validatePlanAgainst(p, prof, catalog) ==
    IF "steps" \notin DOMAIN p
    THEN [error |-> "invalid_plan", details |-> "Plan missing steps array"]
    ELSE IF prof.max_steps # 0 /\ Len(p.steps) > prof.max_steps
    THEN [error |-> "max_steps_exceeded",
          details |-> [max |-> prof.max_steps, actual |-> Len(p.steps)]]
    ELSE checkSteps(p.steps, 0, prof, catalog, prof.blocked_tools)

(***************************************************************************)
(* Plan normalizer: normalizeCoordinates.  Returns the new plan and the    *)
(* skip notices (the 1-based step numbers the notices name).               *)
(***************************************************************************)
adjustPoint(pt, page) ==
    clipPointToViewport(resolvePointAbs(pt, page), viewportSize(page))

RECURSIVE adjustSteps(_, _, _)
adjustSteps(steps, i, page) ==
    IF i >= Len(steps)
    THEN [steps |-> <<>>, notices |-> <<>>]
    ELSE LET s == steps[i + 1]
             rest == adjustSteps(steps, i + 1, page)
             fixed == adjustPoint(s.point, page)
             from == adjustPoint(s.from, page)
             to == adjustPoint(s.to, page)
             skip == [steps |-> rest.steps, notices |-> <<i + 1>> \o rest.notices]
         IN  IF s.tool \in {"click_point", "long_press"} /\ s.point # NoPoint
             THEN IF fixed = NoPoint
                  THEN skip
                  ELSE [steps |-> <<[s EXCEPT !.point = fixed]>> \o rest.steps,
                        notices |-> rest.notices]
             ELSE IF s.tool = "drag"
             THEN IF from = NoPoint \/ to = NoPoint
                  THEN skip
                  ELSE [steps |-> <<[s EXCEPT !.from = from, !.to = to]>> \o rest.steps,
                        notices |-> rest.notices]
             ELSE [steps |-> <<s>> \o rest.steps, notices |-> rest.notices]

normalizeCoordinates(p, page) ==
    IF Len(p.steps) = 0
    THEN [plan |-> p, notices |-> <<>>]
    ELSE LET a == adjustSteps(p.steps, 0, page)
         IN  [plan |-> [p EXCEPT !.steps = a.steps], notices |-> a.notices]

(***************************************************************************)
(* normalizeCoordinates on objects.  A heap is a sequence of objects, an   *)
(* address is an index of it: a plan object is [steps |-> address], an     *)
(* array [items |-> addresses], a step object [tool, args |-> address],    *)
(* an args object the record of the step's arguments.  An object spread    *)
(* { ...o } allocates a new object; an assignment to a property writes     *)
(* the object in place.                                                    *)
(***************************************************************************)
argsOf(step) == [f \in (DOMAIN step) \ {"tool"} |-> step[f]]

\* The objects of a plan as the caller holds it: the plan at address 1, its
\* steps array at 2, step k at 2k + 1 and its args at 2k + 2.
heapOf(p) ==
    [a \in 1..(2 + 2 * Len(p.steps)) |->
        IF a = 1 THEN [steps |-> 2]
        ELSE IF a = 2 THEN [items |-> [k \in 1..Len(p.steps) |-> 2 * k + 1]]
        ELSE IF a % 2 = 1 THEN [tool |-> p.steps[(a - 1) \div 2].tool, args |-> a + 1]
        ELSE argsOf(p.steps[(a - 2) \div 2])]

\* The step a step object stands for.
stepAt(h, a) ==
    [f \in (DOMAIN h[h[a].args]) \cup {"tool"} |->
        IF f = "tool" THEN h[a].tool ELSE h[h[a].args][f]]

\* The plan a plan object stands for.
planAt(h, a) ==
    [steps |-> [k \in 1..Len(h[h[a].steps].items) |-> stepAt(h, h[h[a].steps].items[k])]]

\* s.args = args on the copy of the step, whose args object is the input's.
Mutant_spreadArgs_inPlace(h, s, args) ==
    [heap |-> [h EXCEPT ![h[s].args] = args], s |-> s]

\* Lines 250, 258 and 265: s = { ...s, args: { ...s.args, <points> } }, given
\* the new content of args.
spreadArgs(h, s, args) ==
    LET h2 == Append(h, args)
        h3 == Append(h2, [h[s] EXCEPT !.args = Len(h2)])
    IN  [heap |-> h3, s |-> Len(h3)]

\* Lines 242-268: the for loop from entry i on; adjusted is adjustedSteps.
RECURSIVE adjustObjects(_, _, _, _, _)
adjustObjects(h, items, i, adjusted, page) ==
    IF i > Len(items)
    THEN [heap |-> h, adjusted |-> adjusted]
    ELSE LET h1 == Append(h, h[items[i]])        \* let s = { ...step }
             s == Len(h1)
             args == h1[h1[s].args]
             fixed == adjustPoint(args.point, page)
             from == adjustPoint(args.from, page)
             to == adjustPoint(args.to, page)
             onePoint == spreadArgs(h1, s, [args EXCEPT !.point = fixed])
             twoPoints == spreadArgs(h1, s, [args EXCEPT !.from = from, !.to = to])
         IN  IF h1[s].tool \in {"click_point", "long_press"} /\ args.point # NoPoint
             THEN IF fixed = NoPoint
                  THEN adjustObjects(h1, items, i + 1, adjusted, page)
                  ELSE adjustObjects(onePoint.heap, items, i + 1,
                                     Append(adjusted, onePoint.s), page)
             ELSE IF h1[s].tool = "drag"
             THEN IF from = NoPoint \/ to = NoPoint
                  THEN adjustObjects(h1, items, i + 1, adjusted, page)
                  ELSE adjustObjects(twoPoints.heap, items, i + 1,
                                     Append(adjusted, twoPoints.s), page)
             ELSE adjustObjects(h1, items, i + 1, Append(adjusted, s), page)

\* Lines 231-270 on the heap h for the plan object at address p: the heap
\* after the call and the address of the plan returned.
normalizeObjects(h, p, page) ==
    IF Len(h[h[p].steps].items) = 0
    THEN [heap |-> h, plan |-> p]
    ELSE LET a == adjustObjects(h, h[h[p].steps].items, 1, <<>>, page)
             h2 == Append(a.heap, [items |-> a.adjusted])
             h3 == Append(h2, [h[p] EXCEPT !.steps = Len(h2)])
         IN  [heap |-> h3, plan |-> Len(h3)]

(***************************************************************************)
(* Schema layer: normalizePlan and validatePlanSchema (packages/llm).      *)
(* A plan is a record of its wire fields; a field that is absent from the  *)
(* record is absent from the object.                                       *)
(***************************************************************************)
DEFAULT_AUTONOMY == Str(STR_ASSISTED)

\* The id createPlanId draws: "plan-" and a fresh UUID.
createPlanId == Str(<<"p", "l", "a", "n", "-", "u", "u", "i", "d">>)

clampConfidence(value) ==
    LET num == Number(value)
    IN  IF ~num.fin THEN JsNum(600) ELSE JsNum(Min(1000, Max(0, num.v)))

\* The step mapper of normalizePlan.  The arguments of a step are its
\* other fields and stay as they are (normalizeArgs returns an object as
\* it is); args and explanation, always of the required type after the
\* mapper, are not modelled.
normalizeStep(step) ==
    LET riskRaw == or(or(field(step, "estimated_risk"), field(step, "risk")),
                      field(step, "risk_level"))
        estimated_risk == IF riskRaw.type = "string"
                          THEN Str(toLowerCase(riskRaw.s)) ELSE Str(STR_MEDIUM)
        confidence == clampConfidence(nullish(field(step, "confidence"),
                                              field(step, "score")))
        keys == (DOMAIN step \ {"risk", "risk_level", "score"})
                    \cup {"estimated_risk", "confidence"}
    IN  [k \in keys |-> CASE k = "estimated_risk" -> estimated_risk
                          [] k = "confidence" -> confidence
                          [] OTHER -> step[k]]

\* typeof value === 'string' && value
stringAnd(value) == IF value.type = "string" THEN value ELSE Bool(FALSE)

\* The precedence with the caller's default ahead of the plan's own fields.
Mutant_autonomyOf_fallbackFirst(p, fallbackAutonomy) ==
    or(or(or(or(fallbackAutonomy,
                stringAnd(field(p, "autonomy_level"))),
             stringAnd(field(p, "autonomyLevel"))),
          stringAnd(field(p, "capability_profile"))),
       DEFAULT_AUTONOMY)

\* Lines 226-231: the autonomy level of the normalized plan.
autonomyOf(p, fallbackAutonomy) ==
    or(or(or(or(stringAnd(field(p, "autonomy_level")),
                stringAnd(field(p, "autonomyLevel"))),
             stringAnd(field(p, "capability_profile"))),
          fallbackAutonomy),
       DEFAULT_AUTONOMY)

\* fallbackAutonomy = DEFAULT_AUTONOMY is a default parameter: it stands in
\* for undefined only.  reasoning_summary, always a string after
\* toStringSafe, is not modelled.
normalizePlan(p, fallbackAutonomy) ==
    LET steps == IF "steps" \in DOMAIN p THEN p.steps ELSE <<>>
        fallback == IF fallbackAutonomy = Undefined
                    THEN DEFAULT_AUTONOMY ELSE fallbackAutonomy
    IN  [plan_id |-> or(or(field(p, "plan_id"), field(p, "planId")), createPlanId),
         autonomy_level |-> autonomyOf(p, fallback),
         steps |-> [i \in 1..Len(steps) |-> normalizeStep(steps[i])]]

\* The schema without the enum of tools.
Mutant_schemaValid_noEnum(p) == Len(p.steps) >= 1

AUTONOMY_LEVELS == {Str(STR_ASSISTED), Str(STR_SEMI_AUTO), Str(STR_AUTO)}
RISK_LEVELS == {Str(STR_LOW), Str(STR_MEDIUM), Str(STR_HIGH)}

\* The schema of the items alone, nothing required of the plan's own fields.
Mutant_schemaValid_itemsOnly(p) ==
    /\ Len(p.steps) >= 1
    /\ \A i \in 1..Len(p.steps) : p.steps[i].tool \in ALLOWED_TOOLS

\* type number, minimum 0, maximum 1.
confidenceValid(value) ==
    value.type = "number" /\ value.fin /\ value.v >= 0 /\ value.v <= 1000

\* validate(normalized) of the compiled PLAN_SCHEMA.
schemaValid(p) ==
    /\ p.plan_id.type = "string"
    /\ p.autonomy_level \in AUTONOMY_LEVELS
    /\ Len(p.steps) >= 1
    /\ \A i \in 1..Len(p.steps) :
         /\ p.steps[i].tool \in ALLOWED_TOOLS
         /\ p.steps[i].estimated_risk \in RISK_LEVELS
         /\ confidenceValid(p.steps[i].confidence)

\* The errors of one item of steps, in the order of the item's properties.
stepErrors(step, i) ==
    (IF step.tool \in ALLOWED_TOOLS THEN <<>>
     ELSE <<[keyword |-> "enum", step |-> i, tool |-> step.tool]>>)
    \o (IF step.estimated_risk \in RISK_LEVELS THEN <<>>
        ELSE <<[keyword |-> "enum", step |-> i, estimated_risk |-> step.estimated_risk]>>)
    \o (IF confidenceValid(step.confidence) THEN <<>>
        ELSE <<[keyword |-> IF step.confidence.type # "number" THEN "type"
                            ELSE IF step.confidence.fin /\ step.confidence.v > 1000
                            THEN "maximum" ELSE "minimum",
                step |-> i, property |-> "confidence"]>>)

RECURSIVE itemErrors(_, _)
itemErrors(steps, i) ==
    IF i > Len(steps) THEN <<>>
    ELSE stepErrors(steps[i], i - 1) \o itemErrors(steps, i + 1)

\* validate.errors after validate(normalized) said no (allErrors is on), in
\* the order of the schema's properties: plan_id is no string, autonomy_level
\* is outside the enum, steps has no item, or what is wrong with each item,
\* with its 0-based step.
schemaErrors(p) ==
    (IF p.plan_id.type = "string" THEN <<>>
     ELSE <<[keyword |-> "type", property |-> "plan_id"]>>)
    \o (IF p.autonomy_level \in AUTONOMY_LEVELS THEN <<>>
        ELSE <<[keyword |-> "enum", property |-> "autonomy_level"]>>)
    \o (IF Len(p.steps) = 0
        THEN <<[keyword |-> "minItems", step |-> -1]>>
        ELSE itemErrors(p.steps, 1))

\* validate.errors after validate(normalized): null when it said yes.
errorsAfterValidate(p, fallbackAutonomy) ==
    IF schemaValid(normalizePlan(p, fallbackAutonomy))
    THEN <<>> ELSE schemaErrors(normalizePlan(p, fallbackAutonomy))

validatePlanSchema(p, fallbackAutonomy) ==
    LET normalized == normalizePlan(p, fallbackAutonomy)
    IN  IF ~schemaValid(normalized)
        THEN [error |-> "schema_validation_failed", details |-> schemaErrors(normalized),
              plan |-> normalized]
        ELSE [plan |-> normalized]

(***************************************************************************)
(* executeStep after its kill check: the switch on step.tool.  An effect   *)
(* is [out, origin, asked, calls]: "ok" or the message of the error        *)
(* thrown, context.currentOrigin afterwards, the calls of the origin hook  *)
(* and the driver / host primitives invoked.  The errors the code raises   *)
(* itself are decided by the step; a driver or host primitive may fail.    *)
(***************************************************************************)
NoOrigin == ""
Origins == {"https://a.test", "https://b.test"}

\* confirmOriginChange (421-426): the answers it can give, with the hook
\* calls made.  The hook, when called, answers yes or no.
confirmOriginChange(origin, targetUrl, fn) ==
    IF ~fn \/ origin = NoOrigin
    THEN {[allowed |-> TRUE, asked |-> <<>>]}
    ELSE IF targetUrl = origin
    THEN {[allowed |-> TRUE, asked |-> <<>>]}
    ELSE {[allowed |-> a, asked |-> <<[from |-> origin, to |-> targetUrl, allowed |-> a]>>] :
              a \in BOOLEAN}

Effect(out, origin, asked, calls, dur) ==
    [out |-> out, origin |-> origin, asked |-> asked, calls |-> calls, dur |-> dur]

\* A call of a driver or host primitive: its name and, for the mouse, where.
Call(op) == [op |-> op, at |-> NoPoint]
MouseCall(op, pt) == [op |-> op, at |-> pt]
KeyCall(op, key) == [op |-> op, at |-> NoPoint, key |-> key]

\* Durations are in ms: a primitive takes 10 ms, a slow page load 400 ms, a
\* drag and a long press their default durationMs (400 and 800).
\* The primitive of a tool other than navigate: it works or it fails.
primitive(call, failure, origin) ==
    {Effect("ok", origin, <<>>, <<Call(call)>>, 10),
     Effect(failure, origin, <<>>, <<Call(call)>>, 10)}

\* A sequence of awaited driver calls that takes ms: all of them work, or
\* one of them throws and those after it are not made.
invoke(calls, ms, origin) ==
    {Effect("ok", origin, <<>>, calls, ms)}
    \cup {Effect("driver_error", origin, <<>>, SubSeq(calls, 1, k), 10) : k \in 1..Len(calls)}

(***************************************************************************)
(* The interactables of a page and the fuzzy match on them.  A candidate   *)
(* is [id, label, locatorHint, role, bbox]; the list is [array, items],    *)
(* array = FALSE being a value that is no array (undefined).  Scores are   *)
(* in twentieths: scoreCandidate is doubled, the weights are tenfold.      *)
(***************************************************************************)
NoInteractables == [array |-> FALSE, items |-> <<>>]
NoBox == <<>>

scoreCandidate(text, keyLower) ==
    IF text = <<>> THEN 0
    ELSE LET t == toLowerCase(text)
         IN  IF t = keyLower THEN 6
             ELSE IF includes(t, keyLower) THEN 4
             ELSE IF includes(keyLower, t) THEN 3
             ELSE 0

scoreOf(cand, keyLower) ==
    scoreCandidate(cand.id, keyLower) * 12
    + scoreCandidate(cand.label, keyLower) * 10
    + scoreCandidate(cand.locatorHint, keyLower) * 8
    + scoreCandidate(cand.role, keyLower) * 5

\* The match without the threshold: the best candidate, whatever its score.
Mutant_findInteractableByLabel_noThreshold(interactables, key) ==
    IF key = <<>> \/ ~interactables.array \/ interactables.items = <<>> THEN <<>>
    ELSE LET items == interactables.items
             keyLower == toLowerCase(key)
             best == CHOOSE i \in 1..Len(items) :
                        \A j \in 1..Len(items) :
                            \/ scoreOf(items[j], keyLower) < scoreOf(items[i], keyLower)
                            \/ (scoreOf(items[j], keyLower) = scoreOf(items[i], keyLower) /\ i <= j)
         IN  <<items[best]>>

\* <<>> is null, <<cand>> the best candidate: the first of those with the
\* highest score, when that score is above 0 and at least 1.
findInteractableByLabel(interactables, key) ==
    IF key = <<>> \/ ~interactables.array \/ interactables.items = <<>> THEN <<>>
    ELSE LET items == interactables.items
             keyLower == toLowerCase(key)
             best == CHOOSE i \in 1..Len(items) :
                        \A j \in 1..Len(items) :
                            \/ scoreOf(items[j], keyLower) < scoreOf(items[i], keyLower)
                            \/ (scoreOf(items[j], keyLower) = scoreOf(items[i], keyLower) /\ i <= j)
         IN  IF scoreOf(items[best], keyLower) >= 20 THEN <<items[best]>> ELSE <<>>

\* What collectSnapshot finds on the page the plan is made for: a text box
\* without id and name whose placeholder is "Full Name", at (100, 40), and a
\* link "Help".
PageInteractables ==
    [array |-> TRUE,
     items |-> <<[id |-> <<"H", "e", "l", "p">>, label |-> <<"H", "e", "l", "p">>,
                  locatorHint |-> <<"H", "e", "l", "p">>, role |-> <<"a">>,
                  bbox |-> [x |-> Num(0), y |-> Num(0), width |-> Num(40000),
                            height |-> Num(20000), centerX |-> Num(20000),
                            centerY |-> Num(10000)]],
                 [id |-> <<"F", "u", "l", "l", " ", "N", "a", "m", "e">>,
                  label |-> <<"F", "u", "l", "l", " ", "N", "a", "m", "e">>,
                  locatorHint |-> <<"F", "u", "l", "l", " ", "N", "a", "m", "e">>,
                  role |-> <<"i", "n", "p", "u", "t">>,
                  bbox |-> [x |-> Num(50000), y |-> Num(30000), width |-> Num(100000),
                            height |-> Num(20000), centerX |-> Num(100000),
                            centerY |-> Num(40000)]]>>]

\* bboxCenter(match?.bbox): the point, or NoPoint for null.
bboxCenter(match) ==
    IF match = <<>> \/ match[1].bbox = NoBox THEN NoPoint
    ELSE LET bbox == match[1].bbox
         IN  IF bbox.centerX.fin /\ bbox.centerY.fin
             THEN <<bbox.centerX, bbox.centerY>>
             ELSE IF bbox.x.fin /\ bbox.y.fin /\ bbox.width.fin /\ bbox.height.fin
             THEN <<Num(bbox.x.v + bbox.width.v \div 2), Num(bbox.y.v + bbox.height.v \div 2)>>
             ELSE NoPoint

\* A drag that lets go before it has held.
Mutant_dragCalls_releaseFirst(from, to) ==
    <<MouseCall("mouse.move", from), Call("mouse.down"),
      [op |-> "mouse.move", at |-> to, steps |-> 10], Call("mouse.up"),
      Call("waitForTimeout")>>

\* The calls of a drag and of a long press (562-566 and 570-574, 595-598
\* and 601-604): the second move of a drag is made in 10 steps.
dragCalls(from, to) ==
    <<MouseCall("mouse.move", from), Call("mouse.down"),
      [op |-> "mouse.move", at |-> to, steps |-> 10], Call("waitForTimeout"),
      Call("mouse.up")>>

longPressCalls(point) ==
    <<MouseCall("mouse.move", point), Call("mouse.down"), Call("waitForTimeout"),
      Call("mouse.up")>>

\* The calls of a hotkey: every key down in order, then up in reverse order.
hotkeyCalls(keys) ==
    [i \in 1..Len(keys) |-> KeyCall("keyboard.down", keys[i])]
    \o [i \in 1..Len(keys) |-> KeyCall("keyboard.up", keys[Len(keys) + 1 - i])]

\* `unsupported_tool_${step.tool}` for the tool names of the model.
unsupportedTool(tool) ==
    CASE tool = "eval_js" -> "unsupported_tool_eval_js"
      [] tool = "teleport" -> "unsupported_tool_teleport"

\* An id that a step may carry among its arguments: <<>> when it does not.
idOf(step, name) == IF name \in DOMAIN step THEN step[name] ELSE <<>>

\* No case finds its argument missing.
Mutant_missingArgument_none(step) == ""

\* The error a case throws, before any call, when the argument it needs is
\* not there (507, 520, 578, 608, 638, 654, 661, 671): "" when it is there.
\* The points of click_point, drag and long_press are looked at after
\* resolvePointAbs and the fuzzy match, in the switch.
missingArgument(step) ==
    CASE step.tool = "navigate" /\ step.url = NoUrl -> "navigate_missing_url"
      [] step.tool = "click" /\ step.id = ID_NONE -> "click_missing_id"
      [] step.tool = "type" /\ step.id = ID_NONE -> "type_missing_id"
      [] step.tool = "hotkey" /\ step.keys = <<>> -> "hotkey_missing_keys"
      [] step.tool = "fetch" /\ step.url = NoUrl -> "fetch_missing_url"
      [] step.tool = "read_file" /\ step.path = "" -> "read_file_missing_path"
      [] step.tool = "write_file" /\ step.path = "" -> "write_file_missing_path"
      [] step.tool = "shell" /\ step.cmd = "" -> "shell_missing_cmd"
      [] OTHER -> ""

\* The switch of executeStep on step.tool; interactables is
\* context.interactables.
switchTool(step, origin, fn, interactables) ==
    IF missingArgument(step) # ""
    THEN {Effect(missingArgument(step), origin, <<>>, <<>>, 0)}
    ELSE
    CASE step.tool = "navigate" ->
            UNION {
              IF ~c.allowed
              THEN {Effect("origin_change_denied", origin, c.asked, <<>>, 0)}
              ELSE {Effect("driver_error", origin, c.asked, <<Call("goto")>>, 10)}
                   \cup {Effect("ok", landed, c.asked, <<Call("goto")>>, ms) :
                             landed \in Origins, ms \in {10, 400}}
              : c \in confirmOriginChange(origin, step.url, fn)}
      [] step.tool = "click" ->
            LET pt == bboxCenter(findInteractableByLabel(interactables, step.id))
            IN  {Effect("ok", origin, <<>>, <<Call("click")>>, 10)}
                \cup (IF pt # NoPoint
                      THEN invoke(<<MouseCall("mouse.click", pt)>>, 10, origin)
                      ELSE {Effect("selector_not_found", origin, <<>>, <<>>, 10)})
      [] step.tool = "type" ->
            {Effect("ok", origin, <<>>, <<Call("fill")>>, 10),
             Effect("selector_not_found", origin, <<>>, <<>>, 10)}
      [] step.tool = "click_point" ->
            LET point == resolvePointAbs(step.point, DefaultPage)
            IN  IF point = NoPoint
                THEN {Effect("click_point_missing_xy", origin, <<>>, <<>>, 0)}
                ELSE invoke(<<MouseCall("mouse.move", point), MouseCall("mouse.click", point)>>,
                            10, origin)
      [] step.tool = "drag" ->
            LET from == resolvePointAbs(step.from, DefaultPage)
                to == resolvePointAbs(step.to, DefaultPage)
                fromPt == bboxCenter(findInteractableByLabel(interactables, idOf(step, "fromId")))
                toPt == bboxCenter(findInteractableByLabel(interactables, idOf(step, "toId")))
            IN  IF from = NoPoint \/ to = NoPoint
                THEN IF fromPt = NoPoint \/ toPt = NoPoint
                     THEN {Effect("drag_missing_points", origin, <<>>, <<>>, 0)}
                     ELSE invoke(dragCalls(fromPt, toPt), 400, origin)
                ELSE invoke(dragCalls(from, to), 400, origin)
      [] step.tool = "hotkey" -> invoke(hotkeyCalls(step.keys), 10, origin)
      [] step.tool = "long_press" ->
            LET point == resolvePointAbs(step.point, DefaultPage)
                pt == bboxCenter(findInteractableByLabel(interactables, step.id))
            IN  IF point = NoPoint
                THEN IF pt = NoPoint
                     THEN {Effect("long_press_missing_xy", origin, <<>>, <<>>, 0)}
                     ELSE invoke(longPressCalls(pt), 800, origin)
                ELSE invoke(longPressCalls(point), 800, origin)
      [] step.tool = "scroll" -> primitive("mouse.wheel", "driver_error", origin)
      [] step.tool = "snapshot" -> primitive("screenshot", "driver_error", origin)
      [] step.tool = "fetch" -> primitive("fetch", "fetch failed", origin)
      [] step.tool = "read_file" -> primitive("readFileSync", "ENOENT", origin)
      [] step.tool = "write_file" -> primitive("writeFileSync", "EACCES", origin)
      [] step.tool = "shell" -> primitive("exec", "shell_failed", origin)
      [] OTHER -> {Effect(unsupportedTool(step.tool), origin, <<>>, <<>>, 0)}

\* The origin of the page after a step with effect e: goto leaves the page
\* at the URL context.currentOrigin is read from (511-512); a click or a
\* hotkey that worked on a loaded document may have taken the page anywhere;
\* nothing else leaves the document.
pageAfter(step, e, page) ==
    IF e.out # "ok" THEN {page}
    ELSE IF step.tool = "navigate" THEN {e.origin}
    ELSE IF step.tool \in {"click", "click_point", "hotkey"} /\ page # NoOrigin THEN Origins
    ELSE {page}

DEFAULT_MIN_ACTION_INTERVAL_MS == 250

\* enforceRateLimit without the sleep.
Mutant_enforceRateLimit_noSleep(nowMs, last) == nowMs

\* enforceRateLimit (122-129): the time at which it is over, which is the
\* value it leaves in lastActionAt.
enforceRateLimit(nowMs, last) ==
    LET elapsed == nowMs - last
    IN  IF elapsed < DEFAULT_MIN_ACTION_INTERVAL_MS
        THEN nowMs + (DEFAULT_MIN_ACTION_INTERVAL_MS - elapsed)
        ELSE nowMs

\* The calls of step idx, as driverCalls records them.
callsOf(i, calls) == [k \in 1..Len(calls) |-> [idx |-> i, call |-> calls[k]]]

(***************************************************************************)
(* runPocSession.                                                          *)
(***************************************************************************)
NoPlanYet == [steps |-> <<>>]

\* planGoal's messages once it has returned: the local is gone.
NoMessages == <<>>

Message(role, content) == [role |-> role, content |-> content]

\* Lines 269-289: the array buildMessages returns.  RALPH_PROMPT is null
\* unless scripts/ralph-upstream/prompt.md was fetched, and the array then
\* holds null in its place.
buildMessages ==
    <<Message("system", "SYSTEM_PROMPT"), Null, Message("user", "Goal")>>

\* The corrective instruction of lines 354-358.
Corrective == Message("user", "The previous response was invalid.")

\* The next conversation, without the conversation so far.
Mutant_retryMessages_fresh(msgs, content) ==
    <<Message("assistant", content), Corrective>>

\* Lines 351-360: the conversation after a rejected response.  The model's
\* empty content stands for '' as for undefined, so content || '' is it.
retryMessages(msgs, content) ==
    msgs \o <<Message("assistant", content), Corrective>>

\* planGoal's lastRaw before any response: undefined.
NoResponse == [kind |-> "none", plan |-> NoPlanYet, len |-> 0]

\* The locals of runPocSession as it starts.
InitState ==
    /\ pc = "start"
    /\ toolCatalog = {}
    /\ guardrails = loadGuardrails([kind |-> "none", doc |-> NoProfilesDoc], "default")
    /\ browser = "none"
    /\ attempt = 0
    /\ plan = NoPlanYet
    /\ notices = <<>>
    /\ policyCheck = <<>>
    /\ stages = <<>>
    /\ idx = 0
    /\ dispatched = <<>>
    /\ stepResults = <<>>
    /\ result = <<>>
    /\ thrown = FALSE
    /\ currentOrigin = NoOrigin
    /\ originAsked = <<>>
    /\ driverCalls = <<>>
    /\ pageOrigin = NoOrigin
    /\ lastRaw = NoResponse
    /\ validateErrors = <<>>
    /\ chatThrown = FALSE
    /\ messages = NoMessages
    /\ now = 1000
    /\ lastActionAt = 0
    /\ timeline = <<>>
    /\ waitSlices = <<>>

\* The options of a run.
InitRun ==
    /\ InitState
    /\ confirmPlan \in BOOLEAN
    /\ profile \in ProfileNames
    /\ config \in Configs
    /\ precomputedPlan \in {<<>>} \cup {<<p>> : p \in PlanPool}
    /\ goalOk \in BOOLEAN
    /\ killSignal \in {"none", "armed"}
    /\ confirmOriginChangeFn \in BOOLEAN

\* The runs of Spec are given the origin hook, as the desktop app gives it;
\* SpecExec has the runs without it.
Init ==
    /\ InitRun
    /\ confirmOriginChangeFn = TRUE
    /\ vIn = <<>>
    /\ vOut = <<>>
    /\ nIn = <<>>
    /\ nOut = <<>>
    /\ sIn = <<>>
    /\ sOut = <<>>
    /\ ralph = NoRalph

inputs == <<confirmPlan, profile, config, precomputedPlan, goalOk, confirmOriginChangeFn>>

\* return r: the run is over with result r.
Return(r) ==
    /\ result' = Append(result, r)
    /\ pc' = "done"

\* browser.close() on a browser in state b: "closed_again" is a browser
\* that was closed more than once, "closed_unlaunched" one closed without
\* having been launched.
close(b) ==
    IF b = "open" THEN "closed"
    ELSE IF b = "none" THEN "closed_unlaunched"
    ELSE "closed_again"

\* return r, without closing the browser.
Mutant_CloseAndReturn_leak(r) ==
    /\ UNCHANGED browser
    /\ Return(r)

\* await browser.close(); return r
CloseAndReturn(r) ==
    /\ browser' = close(browser)
    /\ Return(r)

\* Start without the confirmPlan check.
Mutant_Start_unchecked ==
    /\ pc = "start"
    /\ toolCatalog' = buildToolCatalog(profile)
    /\ guardrails' = loadGuardrails(config, profile)
    /\ browser' = "open"
    /\ pc' = "plan"
    /\ UNCHANGED <<inputs, killSignal, genVars, plan, notices, policyCheck, stages,
                   idx, dispatched, stepResults, result, thrown, execVars,
                   timeVars, pureVars>>

\* Lines 715-746: the confirmPlan check, the catalog and guardrails, the
\* browser launch (which is outside the try block).
Start ==
    /\ pc = "start"
    /\ IF ~confirmPlan
       THEN /\ Return([status |-> "policy_error", detail |-> "confirm_required_not_provided"])
            /\ UNCHANGED <<toolCatalog, guardrails, browser, thrown>>
       ELSE /\ toolCatalog' = buildToolCatalog(profile)
            /\ guardrails' = loadGuardrails(config, profile)
            /\ \/ /\ browser' = "open"
                  /\ pc' = "plan"
                  /\ UNCHANGED <<result, thrown>>
               \/ /\ thrown' = TRUE
                  /\ pc' = "done"
                  /\ UNCHANGED <<browser, result>>
    /\ UNCHANGED <<inputs, killSignal, genVars, plan, notices, policyCheck, stages,
                   idx, dispatched, stepResults, execVars,
                   timeVars, pureVars>>

\* Lines 749-756: a precomputed plan goes through validatePlanSchema.
AcceptPrecomputed ==
    /\ pc = "plan"
    /\ precomputedPlan # <<>>
    /\ LET validation == validatePlanSchema(precomputedPlan[1], Undefined)
       IN  IF IsError(validation)
           THEN /\ CloseAndReturn([status |-> "planner_error", detail |-> validation])
                /\ UNCHANGED <<plan, stages>>
           ELSE /\ plan' = validation.plan
                /\ stages' = Append(stages, "schema_ok")
                /\ pc' = "normalize"
                /\ UNCHANGED <<browser, result>>
    /\ validateErrors' = errorsAfterValidate(precomputedPlan[1], Undefined)
    /\ UNCHANGED <<inputs, killSignal, toolCatalog, guardrails, attempt, lastRaw, chatThrown,
                   messages, notices,
                   policyCheck, idx, dispatched, stepResults, thrown, execVars,
                   timeVars, pureVars>>

\* Lines 757-769, planGoal's goal check (llm 294-299) and its first
\* conversation (llm 321-325).
PlanGoalEnter ==
    /\ pc = "plan"
    /\ precomputedPlan = <<>>
    /\ IF ~goalOk
       THEN CloseAndReturn([status |-> "planner_error",
                            detail |-> [error |-> "invalid_goal",
                                        details |-> "Goal must be a non-empty string"]])
       ELSE /\ pc' = "chat"
            /\ UNCHANGED <<browser, result>>
    /\ messages' = IF goalOk THEN buildMessages ELSE messages
    /\ UNCHANGED <<inputs, killSignal, toolCatalog, guardrails, attempt, lastRaw,
                   validateErrors, chatThrown, plan, notices,
                   policyCheck, stages, idx, dispatched, stepResults, thrown, execVars,
                   timeVars, pureVars>>

\* What the inference service can answer: the request throws, or it
\* returns a content: empty, a text that does not parse as JSON, or the
\* text of some JSON object.  len is the length of the content in characters.
Responses ==
    {[kind |-> "throw", plan |-> NoPlanYet, len |-> 0],
     [kind |-> "empty", plan |-> NoPlanYet, len |-> 0],
     [kind |-> "text", plan |-> NoPlanYet, len |-> 40],
     [kind |-> "text", plan |-> NoPlanYet, len |-> 900]}
    \cup {[kind |-> "json", plan |-> p, len |-> 300] : p \in PlanPool}

\* parsePlanContent (llm 100-108).
parsePlanContent(content) ==
    IF content.kind = "empty"
    THEN [error |-> "empty_response"]
    ELSE IF content.kind = "text"
    THEN [error |-> "invalid_json", details |-> "Unexpected token", raw |-> content]
    ELSE [plan |-> content.plan]

\* planGoal's loop condition (llm 329), with three attempts.
Mutant_moreAttempts_three(n) == n < 3

\* planGoal's loop condition (llm 329), with one attempt.
Mutant_moreAttempts_one(n) == n < 1

\* planGoal's loop condition (llm 329): attempt < 2.
moreAttempts(n) == n < 2

\* What planGoal returns after the loop (llm 362), without the diagnostics.
Mutant_afterLoop_bare(errors, raw) == [error |-> "schema_validation_failed"]

\* What planGoal returns after the loop (llm 362).
afterLoop(errors, raw) ==
    [error |-> "schema_validation_failed", details |-> errors, raw |-> raw]

\* planGoal's catch of a failed request (llm 337-339).
chatFailed == [error |-> "ollama_error", details |-> "fetch failed"]

\* One iteration of planGoal's loop (llm 329-360), with the return after
\* the loop (362) and runPocSession's handling of the result (778-793).
Chat ==
    /\ pc = "chat"
    /\ moreAttempts(attempt)
    /\ \E response \in Responses :
         /\ attempt' = attempt + 1
         /\ IF response.kind = "throw"
            THEN /\ chatThrown' = TRUE
                 /\ CloseAndReturn([status |-> "planner_error", detail |-> chatFailed])
                 /\ messages' = NoMessages
                 /\ UNCHANGED <<plan, stages, lastRaw, validateErrors>>
            ELSE LET parsed == parsePlanContent(response)
                     errors == IF IsError(parsed)
                               THEN validateErrors
                               ELSE errorsAfterValidate(parsed.plan, capabilityProfile(guardrails))
                 IN  /\ chatThrown' = FALSE
                     /\ lastRaw' = response
                     /\ validateErrors' = errors
                     /\ IF ~IsError(parsed) /\ ~IsError(validatePlanSchema(parsed.plan, capabilityProfile(guardrails)))
                        THEN /\ plan' = validatePlanSchema(parsed.plan, capabilityProfile(guardrails)).plan
                             /\ stages' = Append(stages, "schema_ok")
                             /\ pc' = "normalize"
                             /\ messages' = NoMessages
                             /\ UNCHANGED <<browser, result>>
                        ELSE IF moreAttempts(attempt + 1)
                        THEN /\ messages' = retryMessages(messages, response)
                             /\ UNCHANGED <<pc, plan, stages, browser, result>>
                        ELSE /\ CloseAndReturn([status |-> "planner_error",
                                                detail |-> afterLoop(errors, response)])
                             /\ messages' = NoMessages
                             /\ UNCHANGED <<plan, stages>>
    /\ UNCHANGED <<inputs, killSignal, toolCatalog, guardrails, notices, policyCheck,
                   idx, dispatched, stepResults, thrown, execVars,
                   timeVars, pureVars>>

\* Line 797.
Normalize ==
    /\ pc = "normalize"
    /\ LET n == normalizeCoordinates(plan, DefaultPage)
       IN  /\ plan' = n.plan
           /\ notices' = n.notices
    /\ stages' = Append(stages, "normalized")
    /\ pc' = "policy"
    /\ UNCHANGED <<inputs, killSignal, toolCatalog, guardrails, browser, genVars,
                   policyCheck, idx, dispatched, stepResults, result, thrown, execVars,
                   timeVars, pureVars>>

\* Lines 810-820.
PolicyCheck ==
    /\ pc = "policy"
    /\ LET check == validatePlanAgainst(plan, guardrails.profile, toolCatalog)
       IN  /\ policyCheck' = <<check>>
           /\ IF IsError(check)
              THEN /\ CloseAndReturn([status |-> "policy_block", detail |-> check])
                   /\ UNCHANGED stages
              ELSE /\ stages' = Append(stages, "policy_ok")
                   /\ pc' = "confirm"
                   /\ UNCHANGED <<browser, result>>
    /\ UNCHANGED <<inputs, killSignal, toolCatalog, guardrails, genVars, plan, notices,
                   idx, dispatched, stepResults, thrown, execVars,
                   timeVars, pureVars>>

\* Confirm, going on to the dispatch loop whatever the hook answers.
Mutant_Confirm_ignored ==
    /\ pc = "confirm"
    /\ \E approved \in BOOLEAN :
         /\ stages' = Append(stages, IF approved THEN "confirmed" ELSE "rejected")
         /\ pc' = "loop"
         /\ UNCHANGED <<browser, result>>
    /\ UNCHANGED <<inputs, killSignal, toolCatalog, guardrails, genVars, plan, notices,
                   policyCheck, idx, dispatched, stepResults, thrown, execVars,
                   timeVars, pureVars>>

\* Lines 826-832: if a hook is there, it answers approved or not.
Confirm ==
    /\ pc = "confirm"
    /\ IF ~confirmPlan
       THEN /\ pc' = "loop"
            /\ UNCHANGED <<stages, browser, result>>
       ELSE \E approved \in BOOLEAN :
              IF ~approved
              THEN /\ CloseAndReturn([status |-> "rejected_by_user"])
                   /\ stages' = Append(stages, "rejected")
              ELSE /\ stages' = Append(stages, "confirmed")
                   /\ pc' = "loop"
                   /\ UNCHANGED <<browser, result>>
    /\ UNCHANGED <<inputs, killSignal, toolCatalog, guardrails, genVars, plan, notices,
                   policyCheck, idx, dispatched, stepResults, thrown, execVars,
                   timeVars, pureVars>>

\* Lines 841-847: what the catch block returns for an error message.
Mutant_catchOutcome_error(message) ==
    IF message = "killed"
    THEN [status |-> "killed"]
    ELSE [status |-> "error", error |-> message]

catchOutcome(message) ==
    IF message = "killed"
    THEN [status |-> "killed"]
    ELSE [status |-> "failed", error |-> message]

\* Lines 834-839 and 849-850: the head of the dispatch loop.
LoopHead ==
    /\ pc = "loop"
    /\ IF idx >= Len(plan.steps)
       THEN /\ CloseAndReturn([status |-> "ok"])
            /\ UNCHANGED dispatched
       ELSE IF killSignal = "aborted"
       THEN /\ CloseAndReturn(catchOutcome("killed"))
            /\ UNCHANGED dispatched
       ELSE /\ dispatched' = Append(dispatched, [idx |-> idx, step |-> plan.steps[idx + 1]])
            /\ pc' = "exec"
            /\ UNCHANGED <<browser, result>>
    /\ UNCHANGED <<inputs, killSignal, toolCatalog, guardrails, genVars, plan, notices,
                   policyCheck, stages, idx, stepResults, thrown, execVars,
                   timeVars, pureVars>>

DEFAULT_WAIT_MS == 800

\* Number(step.args.timeoutMs ?? DEFAULT_WAIT_MS)
timeoutOf(step) ==
    IF step.timeoutMs = NoTimeout THEN DEFAULT_WAIT_MS ELSE step.timeoutMs[1]

RECURSIVE Sum(_)
Sum(seq) == IF seq = <<>> THEN 0 ELSE seq[1] + Sum(Tail(seq))

\* The slice of wait_for_idle, always a whole chunk.
Mutant_sliceOf_wholeChunk(timeoutMs, elapsed) == 100

\* Math.min(chunk, timeoutMs - elapsed), chunk being 100 (core 621, 624).
sliceOf(timeoutMs, elapsed) ==
    IF timeoutMs - elapsed < 100 THEN timeoutMs - elapsed ELSE 100

\* ExecuteStep, going on to the next step after a failed one.
Mutant_ExecuteStep_continue ==
    /\ pc = "exec"
    /\ lastActionAt' = enforceRateLimit(now, lastActionAt)
    /\ IF killSignal = "aborted"
       THEN /\ stepResults' = Append(stepResults, "killed")
            /\ CloseAndReturn(catchOutcome("killed"))
            /\ now' = enforceRateLimit(now, lastActionAt)
            /\ UNCHANGED <<idx, execVars, timeline>>
       ELSE \E e \in switchTool(plan.steps[idx + 1], currentOrigin, confirmOriginChangeFn,
                                  NoInteractables) :
              /\ stepResults' = Append(stepResults, e.out)
              /\ currentOrigin' = e.origin
              /\ pageOrigin' \in pageAfter(plan.steps[idx + 1], e, pageOrigin)
              /\ originAsked' = originAsked \o e.asked
              /\ driverCalls' = driverCalls \o callsOf(idx, e.calls)
              /\ now' = enforceRateLimit(now, lastActionAt) + e.dur
              /\ timeline' = Append(timeline, [idx |-> idx,
                                               start |-> enforceRateLimit(now, lastActionAt),
                                               end |-> enforceRateLimit(now, lastActionAt) + e.dur])
              /\ idx' = idx + 1
              /\ pc' = "loop"
              /\ UNCHANGED <<browser, result>>
    /\ UNCHANGED <<inputs, killSignal, toolCatalog, guardrails, genVars, plan, notices,
                   policyCheck, stages, dispatched, thrown, waitSlices, pureVars>>

\* ExecuteStep without assertNotKilled.
Mutant_ExecuteStep_noKillCheck ==
    /\ pc = "exec"
    /\ lastActionAt' = enforceRateLimit(now, lastActionAt)
    /\ \E e \in switchTool(plan.steps[idx + 1], currentOrigin, confirmOriginChangeFn,
                                  NoInteractables) :
         /\ stepResults' = Append(stepResults, e.out)
         /\ currentOrigin' = e.origin
         /\ pageOrigin' \in pageAfter(plan.steps[idx + 1], e, pageOrigin)
         /\ originAsked' = originAsked \o e.asked
         /\ driverCalls' = driverCalls \o callsOf(idx, e.calls)
         /\ now' = enforceRateLimit(now, lastActionAt) + e.dur
         /\ timeline' = Append(timeline, [idx |-> idx,
                                          start |-> enforceRateLimit(now, lastActionAt),
                                          end |-> enforceRateLimit(now, lastActionAt) + e.dur])
         /\ IF e.out = "ok"
            THEN /\ idx' = idx + 1
                 /\ pc' = "loop"
                 /\ UNCHANGED <<browser, result>>
            ELSE /\ CloseAndReturn(catchOutcome(e.out))
                 /\ UNCHANGED idx
    /\ UNCHANGED <<inputs, killSignal, toolCatalog, guardrails, genVars, plan, notices,
                   policyCheck, stages, dispatched, thrown, waitSlices, pureVars>>

\* executeStep (489-691) and the catch block (841-847).
ExecuteStep ==
    /\ pc = "exec"
    /\ lastActionAt' = enforceRateLimit(now, lastActionAt)
    /\ IF killSignal = "aborted"
       THEN /\ stepResults' = Append(stepResults, "killed")
            /\ CloseAndReturn(catchOutcome("killed"))
            /\ now' = enforceRateLimit(now, lastActionAt)
            /\ UNCHANGED <<idx, execVars, timeline, waitSlices>>
       ELSE IF plan.steps[idx + 1].tool = "wait_for_idle"
       THEN /\ pc' = "wait"
            /\ waitSlices' = <<>>
            /\ now' = enforceRateLimit(now, lastActionAt)
            /\ UNCHANGED <<idx, execVars, timeline, stepResults, browser, result>>
       ELSE \E e \in switchTool(plan.steps[idx + 1], currentOrigin, confirmOriginChangeFn,
                                  NoInteractables) :
              /\ stepResults' = Append(stepResults, e.out)
              /\ currentOrigin' = e.origin
              /\ pageOrigin' \in pageAfter(plan.steps[idx + 1], e, pageOrigin)
              /\ originAsked' = originAsked \o e.asked
              /\ driverCalls' = driverCalls \o callsOf(idx, e.calls)
              /\ now' = enforceRateLimit(now, lastActionAt) + e.dur
              /\ timeline' = Append(timeline, [idx |-> idx,
                                               start |-> enforceRateLimit(now, lastActionAt),
                                               end |-> enforceRateLimit(now, lastActionAt) + e.dur])
              /\ IF e.out = "ok"
                 THEN /\ idx' = idx + 1
                      /\ pc' = "loop"
                      /\ UNCHANGED <<browser, result>>
                 ELSE /\ CloseAndReturn(catchOutcome(e.out))
                      /\ UNCHANGED idx
              /\ UNCHANGED waitSlices
    /\ UNCHANGED <<inputs, killSignal, toolCatalog, guardrails, genVars, plan, notices,
                   policyCheck, stages, dispatched, thrown, pureVars>>

\* The loop of wait_for_idle (core 618-629): one test of the loop condition,
\* with the kill check and the slice that follow it, or the break.
WaitSlice ==
    /\ pc = "wait"
    /\ LET timeoutMs == timeoutOf(plan.steps[idx + 1])
           elapsed == Sum(waitSlices)
           ran == [idx |-> idx, start |-> lastActionAt, end |-> now]
       IN  IF ~(elapsed < timeoutMs)
           THEN /\ stepResults' = Append(stepResults, "ok")
                /\ timeline' = Append(timeline, ran)
                /\ idx' = idx + 1
                /\ pc' = "loop"
                /\ UNCHANGED <<browser, result, now, waitSlices, driverCalls>>
           ELSE IF killSignal = "aborted"
           THEN /\ stepResults' = Append(stepResults, "killed")
                /\ timeline' = Append(timeline, ran)
                /\ CloseAndReturn(catchOutcome("killed"))
                /\ UNCHANGED <<idx, now, waitSlices, driverCalls>>
           ELSE \/ /\ waitSlices' = Append(waitSlices, sliceOf(timeoutMs, elapsed))
                   /\ now' = now + sliceOf(timeoutMs, elapsed)
                   /\ driverCalls' = driverCalls \o callsOf(idx, <<Call("waitForTimeout")>>)
                   /\ UNCHANGED <<pc, idx, stepResults, timeline, browser, result>>
                \/ /\ stepResults' = Append(stepResults, "driver_error")
                   /\ timeline' = Append(timeline, ran)
                   /\ driverCalls' = driverCalls \o callsOf(idx, <<Call("waitForTimeout")>>)
                   /\ CloseAndReturn(catchOutcome("driver_error"))
                   /\ UNCHANGED <<idx, now, waitSlices>>
    /\ UNCHANGED <<inputs, killSignal, toolCatalog, guardrails, genVars, plan, notices,
                   policyCheck, stages, dispatched, thrown, currentOrigin, originAsked, pageOrigin,
                   lastActionAt, pureVars>>

\* The owner of the kill signal sets it, at any moment of a run.
Kill ==
    /\ pc \notin {"start", "done"}
    /\ killSignal = "armed"
    /\ killSignal' = "aborted"
    /\ UNCHANGED <<inputs, pc, toolCatalog, guardrails, browser, genVars, plan, notices,
                   policyCheck, stages, idx, dispatched, stepResults, result, thrown, execVars,
                   timeVars, pureVars>>

Next ==
    \/ Start
    \/ AcceptPrecomputed
    \/ PlanGoalEnter
    \/ Chat
    \/ Normalize
    \/ PolicyCheck
    \/ Confirm
    \/ LoopHead
    \/ ExecuteStep
    \/ Kill

Spec == Init /\ [][Next]_vars

(***************************************************************************)
(* validatePlanAgainst on its own: any plan, profile and catalog.          *)
(***************************************************************************)
VStepPool ==
    StepPool \cup
    {Step("type", ID_PASSWORD, NoPoint),
     Step("type", ID_PASS, NoPoint),
     Step("click", ID_USER_PWD, NoPoint),
     Step("write_file", ID_NONE, NoPoint),
     Step("navigate", ID_NONE, NoPoint)}

VPlans == {[steps |-> st] : st \in SeqsUpTo(VStepPool, MaxPlanLen)} \cup {NotAPlan}

VProfiles ==
    {DEFAULT_GUARDRAILS.profiles[n] : n \in DOMAIN DEFAULT_GUARDRAILS.profiles}
    \cup {TightDoc.profiles[n] : n \in DOMAIN TightDoc.profiles}
    \cup {EmptyProfile, Profile(2, {"type", "shell"}, FALSE, TRUE), Profile(1, {}, TRUE, FALSE)}

VCatalogs == {buildToolCatalog(n) : n \in ProfileNames}

InitValidate ==
    /\ InitRun
    /\ confirmPlan = TRUE
    /\ profile = "default"
    /\ config = [kind |-> "none", doc |-> NoProfilesDoc]
    /\ precomputedPlan = <<>>
    /\ goalOk = TRUE
    /\ killSignal = "none"
    /\ confirmOriginChangeFn = TRUE
    /\ vIn \in {<<[plan |-> p, profile |-> prof, toolCatalog |-> catalog]>> :
                    p \in VPlans, prof \in VProfiles, catalog \in VCatalogs}
    /\ vOut = <<>>
    /\ nIn = <<>>
    /\ nOut = <<>>
    /\ sIn = <<>>
    /\ sOut = <<>>
    /\ ralph = NoRalph

Validate ==
    /\ vOut = <<>>
    /\ vOut' = <<validatePlanAgainst(vIn[1].plan, vIn[1].profile, vIn[1].toolCatalog)>>
    /\ UNCHANGED <<runVars, vIn, nIn, nOut, sIn, sOut, ralph>>

SpecValidate == InitValidate /\ [][Validate]_vars

(***************************************************************************)
(* runPocSession on precomputed plans that navigate: any built-in profile, *)
(* with and without the confirmOriginChange hook.                          *)
(***************************************************************************)
ExecStepPool ==
    {NavigateStep(o) : o \in Origins}
    \cup {NavigateStep(NoUrl),
          Step("click", ID_NAME, NoPoint),
          Step("click", ID_NONE, NoPoint),
          Step("type", ID_NONE, NoPoint),
          Step("hotkey", ID_NONE, NoPoint),
          [Step("hotkey", ID_NONE, NoPoint) EXCEPT !.keys = <<>>],
          [Step("shell", ID_NONE, NoPoint) EXCEPT !.cmd = ""],
          Step("click_point", ID_NONE, <<Num(100), Num(200)>>),
          Step("click_point", ID_NONE, <<Num(0), Num(1)>>),
          Step("long_press", ID_NONE, <<Num(1400000), Num(50000)>>),
          DragStep(<<Num(100), Num(200)>>, <<Num(900), Num(900)>>)}

ExecPlans == {[steps |-> st] : st \in SeqsUpTo(ExecStepPool, MaxPlanLen)}

InitExec ==
    /\ InitState
    /\ confirmPlan = TRUE
    /\ profile \in ProfileNames
    /\ confirmOriginChangeFn \in BOOLEAN
    /\ config = [kind |-> "none", doc |-> NoProfilesDoc]
    /\ precomputedPlan \in {<<p>> : p \in ExecPlans}
    /\ goalOk = TRUE
    /\ killSignal = "none"
    /\ vIn = <<>>
    /\ vOut = <<>>
    /\ nIn = <<>>
    /\ nOut = <<>>
    /\ sIn = <<>>
    /\ sOut = <<>>
    /\ ralph = NoRalph

NextExec ==
    \/ Start
    \/ AcceptPrecomputed
    \/ Normalize
    \/ PolicyCheck
    \/ Confirm
    \/ LoopHead
    \/ ExecuteStep

SpecExec == InitExec /\ [][NextExec]_vars

(***************************************************************************)
(* normalizeCoordinates on its own: any plan of point steps, on a page     *)
(* with or without a known viewport.                                       *)
(***************************************************************************)
NPoints ==
    {<<Num(500), Num(500)>>,           \* fractions: the middle of the page
     <<Num(100000), Num(200000)>>,     \* pixels inside any viewport
     <<Num(1400000), Num(50000)>>,     \* x = 1400 px
     <<Num(-20000), Num(900000)>>,     \* x = -20 px, y = 900 px
     <<Num(100), Num(200)>>,           \* fractions 0.1 and 0.2
     <<Num(-500), Num(1000)>>,         \* fractions -0.5 and 1
     <<Num(500), Num(900000)>>,        \* x = 0.5 px, y = 900 px
     <<Num(0), Num(1)>>,               \* x = 0, y the fraction 0.001
     <<NaN, Num(5000)>>,
     NoPoint}

NStepPool ==
    {Step("click_point", ID_NONE, pt) : pt \in NPoints}
    \cup {Step("long_press", ID_NONE, <<Num(1400000), Num(50000)>>),
          Step("long_press", ID_NONE, <<Num(3000), NaN>>),
          Step("long_press", ID_NAME, NoPoint),
          DragStep(<<Num(100000), Num(200000)>>, <<Num(1400000), Num(900000)>>),
          DragStep(<<Num(100000), Num(200000)>>, <<NaN, Num(5000)>>),
          DragStep(NoPoint, <<Num(100000), Num(200000)>>),
          DragStep(<<Num(100), Num(200)>>, <<Num(900), Num(900)>>),
          Step("click", ID_NAME, NoPoint)}

NPlans == {[steps |-> st] : st \in SeqsUpTo(NStepPool, MaxPlanLen)}

NPages == {NoViewport, DefaultPage, <<800, 600>>, <<1000, 800>>, <<1920, 1080>>}

InitNormalize ==
    /\ InitState
    /\ confirmPlan = TRUE
    /\ profile = "default"
    /\ config = [kind |-> "none", doc |-> NoProfilesDoc]
    /\ precomputedPlan = <<>>
    /\ goalOk = TRUE
    /\ killSignal = "none"
    /\ confirmOriginChangeFn = TRUE
    /\ vIn = <<>>
    /\ vOut = <<>>
    /\ nIn \in {<<[plan |-> p, page |-> page]>> : p \in NPlans, page \in NPages}
    /\ nOut = <<>>
    /\ sIn = <<>>
    /\ sOut = <<>>
    /\ ralph = NoRalph

NormalizeCall ==
    /\ nOut = <<>>
    /\ nOut' = <<[plan |-> normalizeCoordinates(nIn[1].plan, nIn[1].page).plan,
                  notices |-> normalizeCoordinates(nIn[1].plan, nIn[1].page).notices,
                  objects |-> normalizeObjects(heapOf(nIn[1].plan), 1, nIn[1].page)]>>
    /\ UNCHANGED <<runVars, vIn, vOut, nIn, sIn, sOut, ralph>>

SpecNormalize == InitNormalize /\ [][NormalizeCall]_vars

(***************************************************************************)
(* validatePlan (validatePlanSchema) on its own, on plans whose wire       *)
(* fields hold any JSON value: one call on an input drawn at the start.    *)
(***************************************************************************)

SConfidences ==
    {Undefined, Null, JsNum(-300), JsNum(0), JsNum(500), JsNum(1000), JsNum(1700), JsNaN,
     Str(<<"0", ".", "5">>), Str(<<"7">>), Str(<<>>), Str(STR_HIGH), Bool(TRUE),
     Bool(FALSE), EmptyArray, EmptyObject}

SRisks == {Undefined, Str(<<"L", "O", "W">>), Str(<<"e", "x", "t", "r", "a">>), JsNum(1000)}

SStepPool ==
    {[tool |-> tool, id |-> ID_NAME, estimated_risk |-> er, risk |-> r,
      confidence |-> c, score |-> sc] :
        tool \in {"click", "teleport"}, er \in SRisks, r \in {Undefined, Str(STR_HIGH)},
        c \in SConfidences, sc \in {Undefined, JsNum(900)}}

SPlans ==
    {[plan_id |-> id, planId |-> id2, autonomy_level |-> a, autonomyLevel |-> a2,
      capability_profile |-> cp, steps |-> st] :
        id \in {Undefined, Str(<<"p", "1">>), Str(<<>>), JsNum(7000)},
        id2 \in {Undefined, Str(<<"p", "2">>)},
        a \in {Undefined, Str(STR_AUTO), Str(<<>>), Str(<<"g", "o", "d">>), JsNum(1000)},
        a2 \in {Undefined, Str(STR_SEMI_AUTO)},
        cp \in {Undefined, Str(<<"p", "r", "o">>)},
        st \in {<<>>} \cup {<<x>> : x \in SStepPool}}

SFallbacks == {Undefined, Str(STR_AUTO), Str(<<>>)}

InitSchema ==
    /\ InitState
    /\ confirmPlan = TRUE
    /\ profile = "default"
    /\ config = [kind |-> "none", doc |-> NoProfilesDoc]
    /\ precomputedPlan = <<>>
    /\ goalOk = TRUE
    /\ killSignal = "none"
    /\ confirmOriginChangeFn = TRUE
    /\ vIn = <<>>
    /\ vOut = <<>>
    /\ nIn = <<>>
    /\ nOut = <<>>
    /\ sIn \in {<<[plan |-> p, fallbackAutonomy |-> f]>> : p \in SPlans, f \in SFallbacks}
    /\ sOut = <<>>
    /\ ralph = NoRalph

\* Lines 365-367: validatePlan(plan, fallbackAutonomy).
validatePlan ==
    /\ sOut = <<>>
    /\ sOut' = <<validatePlanSchema(sIn[1].plan, sIn[1].fallbackAutonomy)>>
    /\ UNCHANGED <<runVars, vIn, vOut, nIn, nOut, sIn, ralph>>

SpecSchema == InitSchema /\ [][validatePlan]_vars

(***************************************************************************)
(* runPocSession on precomputed plans that wait, with the kill signal.     *)
(* The run has one flow of control and the driver's timer fires, so a      *)
(* wait that can go on does go on.                                         *)
(***************************************************************************)
WaitStepPool ==
    {WaitStep(<<250>>), WaitStep(<<0>>), WaitStep(<<100>>), WaitStep(NoTimeout),
     Step("click", ID_NAME, NoPoint)}

WaitPlans == {[steps |-> st] : st \in SeqsUpTo(WaitStepPool, MaxPlanLen)}

InitWait ==
    /\ InitState
    /\ confirmPlan = TRUE
    /\ profile = "default"
    /\ config = [kind |-> "none", doc |-> NoProfilesDoc]
    /\ precomputedPlan \in {<<p>> : p \in WaitPlans}
    /\ goalOk = TRUE
    /\ killSignal \in {"none", "armed"}
    /\ confirmOriginChangeFn = TRUE
    /\ vIn = <<>>
    /\ vOut = <<>>
    /\ nIn = <<>>
    /\ nOut = <<>>
    /\ sIn = <<>>
    /\ sOut = <<>>
    /\ ralph = NoRalph

NextWait ==
    \/ Start
    \/ AcceptPrecomputed
    \/ Normalize
    \/ PolicyCheck
    \/ Confirm
    \/ LoopHead
    \/ ExecuteStep
    \/ WaitSlice
    \/ Kill

SpecWait == InitWait /\ [][NextWait]_vars /\ WF_vars(WaitSlice)

(***************************************************************************)
(* Vocabulary of the properties.                                           *)
(***************************************************************************)
Done == pc = "done"
Returned == Done /\ result # <<>>
Status == result[1].status

PipelineStages == <<"schema_ok", "normalized", "policy_ok", "confirmed">>

IsPasswordWrite(step) ==
    step.tool = "type" /\
    \E i \in 1..Len(step.id), n \in {3, 8} :
        i + n - 1 <= Len(step.id) /\
        toLowerCase(SubSeq(step.id, i, i + n - 1)) \in {STR_PWD, STR_PASSWORD}

\* What a step violates under a profile and catalog, in the order of 4.3.
Violation(step, prof, catalog) ==
    IF step.tool \notin catalog THEN "unknown_tool"
    ELSE IF step.tool \in prof.blocked_tools THEN "tool_blocked"
    ELSE IF ~prof.allow_password /\ IsPasswordWrite(step) THEN "password_field_blocked"
    ELSE "none"

\* 1-based index of the first violating step, 0 when there is none.
FirstViolating(steps, prof, catalog) ==
    LET bad == {i \in 1..Len(steps) : Violation(steps[i], prof, catalog) # "none"}
    IN  IF bad = {} THEN 0 ELSE CHOOSE i \in bad : \A j \in bad : i <= j

OkCheck == [ok |-> TRUE]

(***************************************************************************)
(* C1.  No step is handed to executeStep unless, in this order, the plan   *)
(* passed schema validation, was normalized, passed the guardrail check    *)
(* and confirmPlan answered true; a run that ends planner_error,           *)
(* policy_block or rejected_by_user has executed no step.                  *)
(***************************************************************************)
C1_GatedDispatch ==
    /\ \/ \E n \in 0..4 : stages = SubSeq(PipelineStages, 1, n)
       \/ stages = SubSeq(PipelineStages, 1, 3) \o <<"rejected">>
    /\ dispatched # <<>> =>
          /\ stages = PipelineStages
          /\ policyCheck = <<OkCheck>>
    /\ (Returned /\ Status \in {"planner_error", "policy_block", "rejected_by_user"}) =>
          /\ dispatched = <<>>
          /\ stepResults = <<>>

C1_Witness ==
    /\ Returned /\ Status = "ok"
    /\ Len(dispatched) = 2
    /\ precomputedPlan = <<>>
    /\ attempt = 2

(***************************************************************************)
(* C2.  Every step handed to executeStep has its tool in the catalog in    *)
(* force and not in the profile's blocked_tools, is no type step on a      *)
(* password-like id when allow_password is false, and the number of steps  *)
(* dispatched never exceeds the profile's max_steps; shell is dispatched   *)
(* only after the guardrail check allowed the plan.                        *)
(***************************************************************************)
C2_OnlyAllowedStepsRun ==
    LET P == guardrails.profile
    IN  /\ \A k \in 1..Len(dispatched) :
              LET st == dispatched[k].step
              IN  /\ st.tool \in toolCatalog
                  /\ st.tool \notin P.blocked_tools
                  /\ ~(P.allow_password = FALSE /\ IsPasswordWrite(st))
                  /\ st.tool = "shell" =>
                        policyCheck = <<OkCheck>> /\ "shell" \in toolCatalog \ P.blocked_tools
        /\ P.max_steps > 0 => Len(dispatched) <= P.max_steps

C2_Witness ==
    /\ Len(dispatched) = 2
    /\ guardrails.profile.max_steps = 2
    /\ \E k \in 1..2 : dispatched[k].step.tool = "shell"

(***************************************************************************)
(* C3.  Under the built-in default (conservative) profile, a plan with a   *)
(* shell step makes the guardrail check return tool_blocked with that      *)
(* step's index; the run ends policy_block and no step is dispatched.      *)
(* Stated for plans whose steps before the shell step violate nothing.     *)
(***************************************************************************)
ConservativeRun == profile = "default" /\ config.kind # "ok"

ShellIsFirstOffence(i) ==
    /\ i \in 1..Len(plan.steps)
    /\ plan.steps[i].tool = "shell"
    /\ \A j \in 1..(i - 1) :
          Violation(plan.steps[j], DEFAULT_GUARDRAILS.profiles["default"],
                    BASE_TOOL_CATALOG) = "none"

C3_ShellToolBlocked ==
    (ConservativeRun /\ policyCheck # <<>>) =>
        \A i \in 1..Len(plan.steps) :
            ShellIsFirstOffence(i) =>
                /\ policyCheck[1] =
                      [error |-> "tool_blocked", details |-> [step |-> i - 1, tool |-> "shell"]]
                /\ Returned /\ Status = "policy_block"
                /\ dispatched = <<>>

(***************************************************************************)
(* C4.  validatePlanAgainst returns Ok for every profile P and plan that   *)
(* uses only tools not in P.blocked_tools, has at most P.max_steps steps   *)
(* and no password-field write when P.allow_password is false.             *)
(* As amended: ... and uses only tools of the catalog in force.            *)
(***************************************************************************)
VPlan == vIn[1].plan
VProfile == vIn[1].profile
VCatalog == vIn[1].toolCatalog
VIsPlan == "steps" \in DOMAIN VPlan

C4_Premises ==
    /\ vOut # <<>>
    /\ VIsPlan
    /\ \A i \in 1..Len(VPlan.steps) : VPlan.steps[i].tool \notin VProfile.blocked_tools
    /\ VProfile.allow_password = FALSE =>
          \A i \in 1..Len(VPlan.steps) : ~IsPasswordWrite(VPlan.steps[i])

\* The claim as made, for the profiles that state a max_steps.
C4_Original ==
    (C4_Premises /\ VProfile.max_steps > 0 /\ Len(VPlan.steps) <= VProfile.max_steps)
        => vOut[1] = OkCheck

\* As amended; a profile without max_steps (0 here) sets no ceiling.
C4_OkWhenCompliant ==
    (/\ C4_Premises
     /\ VProfile.max_steps = 0 \/ Len(VPlan.steps) <= VProfile.max_steps
     /\ \A i \in 1..Len(VPlan.steps) : VPlan.steps[i].tool \in VCatalog)
        => vOut[1] = OkCheck

C4_Witness ==
    /\ vOut = <<OkCheck>>
    /\ Len(VPlan.steps) = VProfile.max_steps
    /\ VProfile.blocked_tools # {}
    /\ VProfile.allow_password = FALSE
    /\ \E i \in 1..Len(VPlan.steps) : VPlan.steps[i].tool = "type"

(***************************************************************************)
(* C5.  A plan with more steps than P.max_steps makes validatePlanAgainst  *)
(* return max_steps_exceeded with details {max: P.max_steps, actual: the   *)
(* step count}, whatever tools its steps use.                              *)
(***************************************************************************)
C5_MaxStepsExceeded ==
    (vOut # <<>> /\ VIsPlan /\ VProfile.max_steps > 0
        /\ Len(VPlan.steps) > VProfile.max_steps)
    => vOut[1] = [error |-> "max_steps_exceeded",
                  details |-> [max |-> VProfile.max_steps, actual |-> Len(VPlan.steps)]]

C5_Witness ==
    /\ vOut # <<>> /\ VIsPlan
    /\ IsError(vOut[1]) /\ vOut[1].error = "max_steps_exceeded"
    /\ \E i \in 1..Len(VPlan.steps) :
          Violation(VPlan.steps[i], VProfile, VCatalog) = "unknown_tool"

(***************************************************************************)
(* C6.  validatePlanAgainst is fail-fast in a fixed order: the step count  *)
(* first, then the steps in plan order, and within a step unknown_tool     *)
(* before tool_blocked before password_field_blocked; every per-step       *)
(* error carries the first violating step's index and its tool.            *)
(***************************************************************************)
C6_FailFastOrder ==
    (vOut # <<>> /\ VIsPlan) =>
        LET first == FirstViolating(VPlan.steps, VProfile, VCatalog)
            r == vOut[1]
        IN  IF VProfile.max_steps > 0 /\ Len(VPlan.steps) > VProfile.max_steps
            THEN IsError(r) /\ r.error = "max_steps_exceeded"
            ELSE IF first = 0
            THEN r = OkCheck
            ELSE /\ IsError(r)
                 /\ r.error = Violation(VPlan.steps[first], VProfile, VCatalog)
                 /\ r.details = [step |-> first - 1, tool |-> VPlan.steps[first].tool]

(***************************************************************************)
(* C7.  Unknown tools are rejected at two layers: a tool outside the fixed *)
(* vocabulary never gets past schema validation (the run ends              *)
(* planner_error, the guardrail never sees it); a tool inside the          *)
(* vocabulary but outside the catalog in force passes the schema and is    *)
(* rejected by the guardrail check, with unknown_tool naming it when it is *)
(* the first offence of a plan within the step ceiling, and the run ends   *)
(* policy_block.                                                           *)
(***************************************************************************)
OutsideVocabulary(p) == \E i \in 1..Len(p.steps) : p.steps[i].tool \notin ALLOWED_TOOLS

C7_TwoLayers ==
    LET P == guardrails.profile
        first == FirstViolating(plan.steps, P, toolCatalog)
        within == ~(P.max_steps > 0 /\ Len(plan.steps) > P.max_steps)
    IN  /\ stages # <<>> => ~OutsideVocabulary(plan)
        /\ (confirmPlan /\ ~thrown /\ pc \notin {"start", "plan"}
              /\ precomputedPlan # <<>> /\ OutsideVocabulary(precomputedPlan[1])) =>
                 /\ Returned /\ Status = "planner_error"
                 /\ result[1].detail.error = "schema_validation_failed"
                 /\ policyCheck = <<>>
        /\ (policyCheck # <<>>
              /\ \E i \in 1..Len(plan.steps) : plan.steps[i].tool \notin toolCatalog) =>
                 /\ IsError(policyCheck[1])
                 /\ Returned /\ Status = "policy_block" /\ result[1].detail = policyCheck[1]
                 /\ dispatched = <<>>
                 /\ (within /\ plan.steps[first].tool \notin toolCatalog) =>
                       policyCheck[1] =
                          [error |-> "unknown_tool",
                           details |-> [step |-> first - 1, tool |-> plan.steps[first].tool]]
        /\ (policyCheck # <<>> /\ IsError(policyCheck[1])
              /\ policyCheck[1].error = "unknown_tool") =>
                 policyCheck[1].details.tool \in ALLOWED_TOOLS \ toolCatalog

C7_Witness ==
    /\ precomputedPlan = <<>>
    /\ policyCheck # <<>> /\ IsError(policyCheck[1])
    /\ policyCheck[1].error = "unknown_tool"
    /\ policyCheck[1].details.tool \in ALLOWED_TOOLS
    /\ Returned /\ Status = "policy_block"

(***************************************************************************)
(* C8.  Without a confirmPlan hook the run ends at once in a configuration *)
(* error: no browser launch, no plan generation, no step; and no step is   *)
(* ever dispatched without the hook having approved the plan.              *)
(***************************************************************************)
C8_ConfirmMandatory ==
    /\ (~confirmPlan /\ pc # "start") =>
          /\ Done /\ ~thrown
          /\ result = <<[status |-> "policy_error", detail |-> "confirm_required_not_provided"]>>
          /\ browser = "none"
          /\ attempt = 0
          /\ stages = <<>>
          /\ policyCheck = <<>>
          /\ dispatched = <<>>
    /\ dispatched # <<>> => (confirmPlan /\ Len(stages) >= 4 /\ stages[4] = "confirmed")

C8_Witness ==
    /\ ~confirmPlan
    /\ Done
    /\ precomputedPlan # <<>>
    /\ ~IsError(validatePlanSchema(precomputedPlan[1], Undefined))

(***************************************************************************)
(* C9.  Every run produces exactly one terminal outcome, whose status is   *)
(* one of ok, rejected_by_user, policy_block, planner_error, killed,       *)
(* failed.                                                                 *)
(* As amended: every run that returns returns exactly one result, whose    *)
(* status is one of those six, or policy_error, which is returned exactly  *)
(* when no confirmPlan hook was supplied.                                  *)
(***************************************************************************)
RunOutcomes == {"ok", "rejected_by_user", "policy_block", "planner_error", "killed", "failed"}

C10_FailFast ==
    /\ \A k \in 1..Len(dispatched) :
          dispatched[k].idx = k - 1 /\ dispatched[k].step = plan.steps[k]
    /\ Len(stepResults) <= Len(dispatched)
    /\ Len(dispatched) <= Len(stepResults) + 1
    /\ pc = "exec" <=> Len(dispatched) = Len(stepResults) + 1
    /\ \A k \in 1..Len(stepResults) :
          stepResults[k] # "ok" =>
              /\ k = Len(stepResults)
              /\ k = Len(dispatched)
              /\ Done
              /\ stepResults[k] # "killed" =>
                    result = <<[status |-> "failed", error |-> stepResults[k]]>>

C10_Witness ==
    /\ Returned /\ Status = "failed"
    /\ Len(dispatched) = 1
    /\ Len(plan.steps) = 2

(***************************************************************************)
(* C11.  The kill signal is looked at right before a step is dispatched    *)
(* (at the head of the loop and again inside executeStep, before the       *)
(* switch on the tool).  If it is set at that moment, the run ends there   *)
(* with status killed and no primitive is invoked: neither the one of the  *)
(* step at hand nor, the run being over, the one of any later step.        *)
(***************************************************************************)
AtKillCheck == pc \in {"loop", "exec"} /\ idx < Len(plan.steps)

C11_KillBeforeDispatch ==
    [][/\ (AtKillCheck /\ killSignal = "aborted")
          => /\ pc' = "done"
             /\ result' = <<[status |-> "killed"]>>
             /\ driverCalls' = driverCalls
             /\ dispatched' = dispatched
       /\ pc = "done" => driverCalls' = driverCalls /\ result' = result]_vars

\* A run killed after its first step was carried out: the second step is
\* in the plan, and no primitive of it was invoked.
C11_Witness ==
    /\ Returned /\ Status = "killed"
    /\ idx = 1 /\ Len(plan.steps) = 2
    /\ stepResults[1] = "ok"
    /\ driverCalls # <<>>
    /\ \A k \in 1..Len(driverCalls) : driverCalls[k].idx = 0

(***************************************************************************)
(* C12.  Under a profile with require_origin_confirmation = true, every    *)
(* navigate step whose target origin differs from the current origin asks  *)
(* the confirmOriginChange hook; when the answer is no, no navigate        *)
(* primitive is invoked for the step, no later step is dispatched and the  *)
(* run ends with error origin_change_denied.                               *)
(***************************************************************************)
CrossOriginNavigate ==
    /\ pc = "exec"
    /\ plan.steps[idx + 1].tool = "navigate"
    /\ plan.steps[idx + 1].url # NoUrl
    /\ currentOrigin # NoOrigin
    /\ plan.steps[idx + 1].url # currentOrigin

C12_OriginGate ==
    [][(CrossOriginNavigate /\ guardrails.profile.require_origin_confirmation)
          => /\ Len(originAsked') = Len(originAsked) + 1
             /\ LET answer == originAsked'[Len(originAsked')]
                IN  /\ answer.from = currentOrigin
                    /\ answer.to = plan.steps[idx + 1].url
                    /\ ~answer.allowed
                          => /\ driverCalls' = driverCalls
                             /\ dispatched' = dispatched
                             /\ pc' = "done"
                             /\ result' = <<[status |-> "failed",
                                             error |-> "origin_change_denied"]>>]_vars

(***************************************************************************)
(* C13.  Under a profile with require_origin_confirmation = false (auto,   *)
(* unleashed) the confirmOriginChange hook is never called and no          *)
(* navigation is denied.                                                   *)
(***************************************************************************)
C13_NoOriginPrompt ==
    (pc # "start" /\ ~guardrails.profile.require_origin_confirmation)
        => /\ originAsked = <<>>
           /\ \A k \in 1..Len(stepResults) : stepResults[k] # "origin_change_denied"

(***************************************************************************)
(* C14.  When the first response of the inference service fails (it does   *)
(* not parse or does not pass the schema) the generator asks again, and    *)
(* when the second response passes the schema the generator returns the    *)
(* plan built from that second response: the run goes on with it and is    *)
(* no planner_error.                                                       *)
(***************************************************************************)
Generated == precomputedPlan = <<>>
SchemaFailure ==
    Returned /\ Status = "planner_error"
             /\ result[1].detail.error = "schema_validation_failed"
PassesSchema(response) ==
    response.kind = "json" /\ ~IsError(validatePlanSchema(response.plan, capabilityProfile(guardrails)))

C14_SecondResponseWins ==
    /\ (Generated /\ SchemaFailure) => attempt = 2
    /\ (Generated /\ attempt = 2 /\ PassesSchema(lastRaw))
          => /\ "schema_ok" \in {stages[k] : k \in 1..Len(stages)}
             /\ ~(Returned /\ Status = "planner_error")
             /\ pc = "normalize" => plan = validatePlanSchema(lastRaw.plan, capabilityProfile(guardrails)).plan

\* The second response has just been accepted.
C14_Witness ==
    /\ Generated /\ attempt = 2 /\ PassesSchema(lastRaw)
    /\ pc = "normalize"
    /\ Len(plan.steps) = 2

(***************************************************************************)
(* C15.  The generator never makes more than 2 inference requests, and     *)
(* when the second response fails too (the request itself not having       *)
(* thrown) it returns exactly schema_validation_failed: the run ends       *)
(* planner_error with that error and no plan is accepted.                  *)
(***************************************************************************)
C15_TwoAttempts ==
    /\ attempt <= 2
    /\ (Generated /\ attempt = 2 /\ ~PassesSchema(lastRaw))
          => /\ Returned /\ Status = "planner_error"
             /\ stages = <<>> /\ plan = NoPlanYet
             /\ result[1].detail.error # "ollama_error"
                   => result[1].detail.error = "schema_validation_failed"

\* Two responses, the second a JSON object that fails the schema.
C15_Witness ==
    /\ Generated /\ attempt = 2
    /\ lastRaw.kind = "json" /\ ~PassesSchema(lastRaw)
    /\ SchemaFailure

(***************************************************************************)
(* C16.  When the generator gives up on a response that does not parse as  *)
(* JSON, the error it returns is invalid_json.                             *)
(***************************************************************************)
C16_InvalidJson ==
    (/\ Generated /\ Returned /\ Status = "planner_error"
     /\ lastRaw.kind = "text"
     /\ result[1].detail.error # "ollama_error")
        => result[1].detail.error = "invalid_json"

(***************************************************************************)
(* C17.  On the second failure the schema_validation_failed error carries  *)
(* the validator's error list for the last (rejected) output and a         *)
(* truncated snippet of the raw text.                                      *)
(***************************************************************************)
SnippetMax == 400
slice(raw, n) == [raw EXCEPT !.len = IF raw.len <= n THEN raw.len ELSE n]

\* What the validator says of a response: its errors, or of a text that
\* is no JSON, nothing.
ErrorsFor(response) ==
    IF response.kind = "json" THEN errorsAfterValidate(response.plan, capabilityProfile(guardrails)) ELSE <<>>

C17_ErrorsAndSnippet ==
    (Generated /\ SchemaFailure)
        => /\ result[1].detail.details = ErrorsFor(lastRaw)
           /\ result[1].detail.raw = slice(lastRaw, SnippetMax)

NPlanIn == nIn[1].plan
NPage == nIn[1].page
NPlanOut == nOut[1].plan

Unresolvable(step, page) ==
    CASE step.tool \in {"click_point", "long_press"} ->
            resolvePointAbs(step.point, page) = NoPoint
      [] step.tool = "drag" ->
            \/ resolvePointAbs(step.from, page) = NoPoint
            \/ resolvePointAbs(step.to, page) = NoPoint
      [] OTHER -> FALSE

\* Which step it is, leaving its points aside.
Identity(steps) == [k \in 1..Len(steps) |-> <<steps[k].tool, steps[k].id>>]

C19_DropsUnresolvable ==
    nOut # <<>>
        => LET kept == SelectSeq(NPlanIn.steps, LAMBDA st : ~Unresolvable(st, NPage))
           IN  /\ Len(NPlanOut.steps) = Len(kept)
               /\ Identity(NPlanOut.steps) = Identity(kept)
               /\ Len(nOut[1].notices) = Len(NPlanIn.steps) - Len(kept)

(***************************************************************************)
(* C20.  After the normalizer every point of a retained click_point, drag  *)
(* or long_press step is finite and lies in the viewport: 0 <= x <= width  *)
(* and 0 <= y <= height, the viewport being 1280 x 720 when the page has   *)
(* none.  A click_point at (1400, 50) on a 1280-wide viewport comes out    *)
(* with x = 1280.                                                          *)
(***************************************************************************)
InViewport(pt, vp) ==
    /\ pt # NoPoint
    /\ pt[1].fin /\ 0 <= pt[1].v /\ pt[1].v <= vp.width * 1000
    /\ pt[2].fin /\ 0 <= pt[2].v /\ pt[2].v <= vp.height * 1000

FarRight == <<Num(1400000), Num(50000)>>

C20_PointsInViewport ==
    nOut # <<>>
        => /\ \A k \in 1..Len(NPlanOut.steps) :
                LET st == NPlanOut.steps[k]
                    vp == IF NPage = NoViewport
                          THEN [width |-> 1280, height |-> 720]
                          ELSE [width |-> NPage[1], height |-> NPage[2]]
                IN  /\ (st.tool \in {"click_point", "long_press"} /\ st.point # NoPoint)
                          => InViewport(st.point, vp)
                    /\ st.tool = "drag"
                          => InViewport(st.from, vp) /\ InViewport(st.to, vp)
           /\ (NPlanIn.steps = <<Step("click_point", ID_NONE, FarRight)>>
                   /\ NPage \in {NoViewport, <<1280, 720>>})
                 => NPlanOut.steps =
                        <<Step("click_point", ID_NONE, <<Num(1280000), Num(50000)>>)>>

\* The example of the claim, on a page without a viewport, has been normalized.
C20_Witness ==
    /\ nOut # <<>>
    /\ NPage = NoViewport
    /\ NPlanIn.steps = <<Step("click_point", ID_NONE, FarRight)>>
    /\ NPlanOut.steps[1].point[1] = Num(1280000)

(***************************************************************************)
(* C21.  A finite point with both components in [-1, 1] is a fraction of   *)
(* the viewport: it is multiplied by the width and the height, and then    *)
(* clipped.  Any other finite point is taken as pixels and only clipped.   *)
(* A drag with two such points is retained with both of them treated so:   *)
(* from (0.1, 0.2) to (0.9, 0.9) on 800 x 600 gives (80, 120) and          *)
(* (720, 540); a click_point at (0.1, 0.2) on 1000 x 800 gives (100, 160). *)
(***************************************************************************)
NViewport ==
    IF NPage = NoViewport
    THEN [width |-> 1280, height |-> 720]
    ELSE [width |-> NPage[1], height |-> NPage[2]]

Finite(pt) == pt # NoPoint /\ pt[1].fin /\ pt[2].fin
IsFraction(pt) ==
    /\ -1000 <= pt[1].v /\ pt[1].v <= 1000
    /\ -1000 <= pt[2].v /\ pt[2].v <= 1000
Clamp(v, hi) == IF v < 0 THEN 0 ELSE IF v > hi THEN hi ELSE v

\* Where a finite point of the plan is to end up.
Scaled(pt, vp) ==
    IF IsFraction(pt)
    THEN <<Num(Clamp(pt[1].v * vp.width, vp.width * 1000)),
           Num(Clamp(pt[2].v * vp.height, vp.height * 1000))>>
    ELSE <<Num(Clamp(pt[1].v, vp.width * 1000)),
           Num(Clamp(pt[2].v, vp.height * 1000))>>

\* The plans whose point steps all have their points (nothing is dropped).
AllResolvable == \A k \in 1..Len(NPlanIn.steps) : ~Unresolvable(NPlanIn.steps[k], NPage)
HasPoint(st) == st.tool \in {"click_point", "long_press"} /\ Finite(st.point)

C21_FractionsScaled ==
    (nOut # <<>> /\ AllResolvable)
        => /\ Len(NPlanOut.steps) = Len(NPlanIn.steps)
           /\ \A k \in 1..Len(NPlanIn.steps) :
                LET st == NPlanIn.steps[k]
                    out == NPlanOut.steps[k]
                IN  /\ out.tool = st.tool
                    /\ HasPoint(st) => out.point = Scaled(st.point, NViewport)
                    /\ st.tool = "drag"
                          => /\ out.from = Scaled(st.from, NViewport)
                             /\ out.to = Scaled(st.to, NViewport)
           /\ (NPage = <<800, 600>>
                   /\ NPlanIn.steps = <<DragStep(<<Num(100), Num(200)>>, <<Num(900), Num(900)>>)>>)
                 => NPlanOut.steps = <<DragStep(<<Num(80000), Num(120000)>>,
                                                <<Num(720000), Num(540000)>>)>>
           /\ (NPage = <<1000, 800>>
                   /\ NPlanIn.steps = <<Step("click_point", ID_NONE, <<Num(100), Num(200)>>)>>)
                 => NPlanOut.steps =
                        <<Step("click_point", ID_NONE, <<Num(100000), Num(160000)>>)>>

\* The drag of the scenario has been normalized on an 800 x 600 page.
C21_Witness ==
    /\ nOut # <<>>
    /\ NPage = <<800, 600>>
    /\ NPlanIn.steps = <<DragStep(<<Num(100), Num(200)>>, <<Num(900), Num(900)>>)>>
    /\ Len(NPlanOut.steps) = 1
    /\ NPlanOut.steps[1].to = <<Num(720000), Num(540000)>>

(***************************************************************************)
(* C22.  Normalizing is idempotent on points that are already inside the   *)
(* viewport rectangle: when every point of the plan lies in                *)
(* [0, width] x [0, height], normalizing the normalized plan gives the     *)
(* normalized plan again.                                                  *)
(***************************************************************************)
PointsOf(st) ==
    CASE st.tool \in {"click_point", "long_press"} -> {st.point} \ {NoPoint}
      [] st.tool = "drag" -> {st.from, st.to}
      [] OTHER -> {}

AlreadyClipped ==
    \A k \in 1..Len(NPlanIn.steps) :
        \A pt \in PointsOf(NPlanIn.steps[k]) : InViewport(pt, NViewport)

C22_Idempotent ==
    (nOut # <<>> /\ AlreadyClipped)
        => normalizeCoordinates(NPlanOut, NPage).plan = NPlanOut

(***************************************************************************)
(* C23.  The coordinates handed to the driver's mouse primitives for       *)
(* click_point, drag and long_press are the point values stored in the     *)
(* normalized plan: they are not scaled a second time and they lie in the  *)
(* viewport.                                                               *)
(***************************************************************************)
C23_PointsAsNormalized ==
    \A k \in 1..Len(driverCalls) :
        LET c == driverCalls[k]
        IN  c.call.at # NoPoint
                => /\ c.call.at \in PointsOf(plan.steps[c.idx + 1])
                   /\ InViewport(c.call.at, Viewport)

(***************************************************************************)
(* C24.  Rate limiting.  As claimed: between the completion of an action   *)
(* and the dispatch of the next one at least 250 ms pass.  What holds: the *)
(* interval is measured from the previous action's start (the moment       *)
(* enforceRateLimit stamps, after its own sleep): consecutive actions      *)
(* start at least 250 ms apart.  Rate limiting only suspends: the actions  *)
(* that ran are the steps of the plan from the first on, each once, in     *)
(* order.                                                                  *)
(***************************************************************************)
C24_Original ==
    \A k \in 1..(Len(timeline) - 1) :
        timeline[k + 1].start - timeline[k].end >= 250

C24_RateLimitFromStart ==
    /\ \A k \in 1..(Len(timeline) - 1) :
          timeline[k + 1].start - timeline[k].start >= 250
    /\ \A k \in 1..Len(timeline) :
          /\ timeline[k].idx = k - 1
          /\ timeline[k].start <= timeline[k].end
          /\ k <= Len(dispatched)
          /\ dispatched[k] = [idx |-> k - 1, step |-> plan.steps[k]]
    /\ lastActionAt <= now

\* Two actions have run, the second one 250 ms after the first started
\* and less than 250 ms after it completed.
C24_Witness ==
    /\ Len(timeline) = 2
    /\ timeline[2].start = timeline[1].start + 250
    /\ timeline[2].start - timeline[1].end < 250

(***************************************************************************)
(* C25.  A wait_for_idle step with timeout T waits in slices of at most    *)
(* 100 ms that add up to T (to nothing when T <= 0) and then ends.  The    *)
(* kill signal is looked at before every slice: when it is set then, no    *)
(* further slice is started and the run ends killed.  A wait always comes  *)
(* to an end.                                                              *)
(***************************************************************************)
Waiting == pc = "wait"
WaitTimeout == timeoutOf(plan.steps[idx + 1])

C25_SlicesBounded ==
    Waiting => /\ \A k \in 1..Len(waitSlices) : 0 < waitSlices[k] /\ waitSlices[k] <= 100
               /\ Sum(waitSlices) <= (IF WaitTimeout < 0 THEN 0 ELSE WaitTimeout)

C25_SliceSteps ==
    /\ (Waiting /\ pc' = "loop")
          => /\ Sum(waitSlices) = (IF WaitTimeout < 0 THEN 0 ELSE WaitTimeout)
             /\ now - lastActionAt = Sum(waitSlices)
    /\ (Waiting /\ killSignal = "aborted" /\ Sum(waitSlices) < WaitTimeout)
          => /\ waitSlices' = waitSlices
             /\ driverCalls' = driverCalls
             /\ pc' = "done"
             /\ result' = <<[status |-> "killed"]>>

SPlanIn == sIn[1].plan
SFallback == sIn[1].fallbackAutonomy
SReturned == sOut # <<>>
SPlanOut == sOut[1].plan
NonEmptyString(value) == value.type = "string" /\ value.s # <<>>
InUnit(value) == value.type = "number" /\ value.fin /\ value.v >= 0 /\ value.v <= 1000

C26_WireShape ==
    (SReturned /\ ~IsError(sOut[1]))
        => /\ Len(SPlanOut.steps) >= 1
           /\ \A k \in 1..Len(SPlanOut.steps) :
                /\ SPlanOut.steps[k].tool \in ALLOWED_TOOLS
                /\ SPlanOut.steps[k].estimated_risk.type = "string"
                /\ SPlanOut.steps[k].estimated_risk.s \in {STR_LOW, STR_MEDIUM, STR_HIGH}
                /\ InUnit(SPlanOut.steps[k].confidence)
           /\ SPlanOut.autonomy_level.type = "string"
           /\ SPlanOut.autonomy_level.s \in {STR_ASSISTED, STR_SEMI_AUTO, STR_AUTO}
           /\ NonEmptyString(SPlanOut.plan_id)
           /\ (~truthy(SPlanIn.plan_id) /\ ~truthy(SPlanIn.planId))
                 => SPlanOut.plan_id = createPlanId

\* A plan with no id, no autonomy level, an upper-case risk and a
\* confidence above 1 has been returned.
C26_Witness ==
    /\ SReturned /\ ~IsError(sOut[1])
    /\ SPlanIn.plan_id = Undefined /\ SPlanIn.planId = Undefined
    /\ SPlanIn.autonomy_level = Undefined /\ SPlanIn.autonomyLevel = Undefined
    /\ SPlanIn.capability_profile = Undefined
    /\ Len(SPlanIn.steps) = 1
    /\ SPlanIn.steps[1].estimated_risk = Str(<<"L", "O", "W">>)
    /\ SPlanIn.steps[1].confidence = JsNum(1700)

(***************************************************************************)
(* C27.  The confidence of a normalized step is always in [0, 1]: a number *)
(* below 0 becomes 0, a number above 1 becomes 1, and, as stated, every    *)
(* value that is not a number becomes 0.6; the confidence never makes the  *)
(* schema say no.                                                          *)
(***************************************************************************)
\* step.confidence ?? step.score of the input's step k.
ConfidenceIn(k) ==
    IF SPlanIn.steps[k].confidence \in {Undefined, Null}
    THEN SPlanIn.steps[k].score ELSE SPlanIn.steps[k].confidence
ConfidenceOut(k) == sOut[1].plan.steps[k].confidence
IsNumber(value) == value.type = "number" /\ value.fin
NoConfidenceError ==
    IsError(sOut[1])
        => \A e \in 1..Len(sOut[1].details) :
              ~("property" \in DOMAIN sOut[1].details[e]
                  /\ sOut[1].details[e].property = "confidence")
Clamped(k) ==
    /\ InUnit(ConfidenceOut(k))
    /\ (IsNumber(ConfidenceIn(k)) /\ ConfidenceIn(k).v < 0) => ConfidenceOut(k) = JsNum(0)
    /\ (IsNumber(ConfidenceIn(k)) /\ ConfidenceIn(k).v > 1000) => ConfidenceOut(k) = JsNum(1000)
    /\ (IsNumber(ConfidenceIn(k)) /\ ConfidenceIn(k).v >= 0 /\ ConfidenceIn(k).v <= 1000)
          => ConfidenceOut(k) = ConfidenceIn(k)

C27_NonNumericDefault ==
    SReturned
        => /\ NoConfidenceError
           /\ \A k \in 1..Len(SPlanIn.steps) :
                /\ Clamped(k)
                /\ ~IsNumber(ConfidenceIn(k)) => ConfidenceOut(k) = JsNum(600)

(***************************************************************************)
(* C28.  The autonomy level of a normalized plan is the plan's explicit    *)
(* autonomy_level, else a legacy alias field of the plan (autonomyLevel,   *)
(* then capability_profile), else the caller's default, else the global    *)
(* default "assisted".                                                     *)
(***************************************************************************)
C28_AutonomyPrecedence ==
    SReturned
        => sOut[1].plan.autonomy_level =
              IF NonEmptyString(SPlanIn.autonomy_level) THEN SPlanIn.autonomy_level
              ELSE IF NonEmptyString(SPlanIn.autonomyLevel) THEN SPlanIn.autonomyLevel
              ELSE IF NonEmptyString(SPlanIn.capability_profile) THEN SPlanIn.capability_profile
              ELSE IF NonEmptyString(SFallback) THEN SFallback
              ELSE Str(STR_ASSISTED)

\* The alias won over the caller's default, the explicit field being absent.
C28_Witness ==
    /\ SReturned
    /\ SPlanIn.autonomy_level = Undefined
    /\ SPlanIn.autonomyLevel = Str(STR_SEMI_AUTO)
    /\ SFallback = Str(STR_AUTO)
    /\ sOut[1].plan.autonomy_level = Str(STR_SEMI_AUTO)

(***************************************************************************)
(* C29.  Loading the guardrail document never stops the run: a document    *)
(* that does not parse gives the built-in defaults with a source that      *)
(* carries the parse error, a document that is not there (or no path)      *)
(* gives the built-in defaults.                                            *)
(***************************************************************************)
Loaded == pc # "start" /\ confirmPlan
BuiltIn == selectGuardrailProfile(DEFAULT_GUARDRAILS, profile)

C29_GuardrailFallback ==
    /\ (Loaded /\ config.kind = "parse_error")
          => guardrails = [source |-> "file (parse_error)",
                           profileName |-> BuiltIn.profileName,
                           profile |-> BuiltIn.profile]
    /\ (Loaded /\ config.kind \in {"none", "missing"})
          => guardrails = [source |-> "built-in-default",
                           profileName |-> BuiltIn.profileName,
                           profile |-> BuiltIn.profile]
    /\ (Loaded /\ config.kind # "ok")
          => /\ guardrails.profile \in {DEFAULT_GUARDRAILS.profiles[n] : n \in ProfileNames}
             /\ (profile \in ProfileNames => guardrails.profileName = profile)

\* The run went on to planning with the defaults after a parse error.
C29_Witness ==
    /\ pc = "plan"
    /\ config.kind = "parse_error"
    /\ profile = "pro"
    /\ guardrails.source = "file (parse_error)"
    /\ guardrails.profile.max_steps = 25

(***************************************************************************)
(* C30.  The profile in force is always well-formed, with an integer       *)
(* max_steps above 0: it is the requested profile if the document defines  *)
(* it, else the document's default, else the first one it defines; a run   *)
(* is never governed by an empty profile.                                  *)
(***************************************************************************)
C30_ProfileWellFormed ==
    Loaded
        => /\ guardrails.profile.max_steps > 0
           /\ guardrails.profile # EmptyProfile
           /\ LET doc == IF config.kind = "ok" THEN config.doc ELSE DEFAULT_GUARDRAILS
              IN  /\ guardrails.profileName \in DOMAIN doc.profiles
                  /\ guardrails.profile = doc.profiles[guardrails.profileName]
                  /\ guardrails.profileName =
                        IF profile \in DOMAIN doc.profiles THEN profile
                        ELSE IF "default" \in DOMAIN doc.profiles THEN "default"
                        ELSE doc.order[1]

(***************************************************************************)
(* C31.  When the locator cascade of a click with an id fails, the         *)
(* dispatcher matches the id against the last known interactables and      *)
(* clicks the centre of the best match if its score is at least 1;         *)
(* otherwise the step fails with selector_not_found.                       *)
(***************************************************************************)
CallsOfStep(i) == SelectSeq(driverCalls, LAMBDA c : c.idx = i)
CascadeFailed(k) ==
    /\ dispatched[k].step.tool = "click"
    /\ dispatched[k].step.id # ID_NONE
    /\ stepResults[k] # "killed"
    /\ [idx |-> k - 1, call |-> Call("click")] \notin {driverCalls[j] : j \in 1..Len(driverCalls)}

C31_FuzzyFallback ==
    Generated
        => \A k \in 1..Len(stepResults) :
              CascadeFailed(k)
                  => LET pt == bboxCenter(findInteractableByLabel(PageInteractables,
                                                                  dispatched[k].step.id))
                     IN  IF pt # NoPoint
                         THEN CallsOfStep(k - 1) = <<[idx |-> k - 1,
                                                      call |-> MouseCall("mouse.click", pt)]>>
                         ELSE /\ stepResults[k] = "selector_not_found"
                              /\ CallsOfStep(k - 1) = <<>>

(***************************************************************************)
(* C32.  A step without the argument its tool requires fails with the      *)
(* missing-argument error of that tool (navigate_missing_url,              *)
(* click_missing_id, type_missing_id, hotkey_missing_keys,                 *)
(* shell_missing_cmd), a step whose tool is outside the dispatch table     *)
(* fails with unsupported_tool_<name>, and in both cases no driver or host *)
(* primitive is invoked for the step.                                      *)
(***************************************************************************)
DispatchTable ==
    {"navigate", "click", "click_point", "drag", "hotkey", "long_press", "type", "scroll",
     "wait_for_idle", "snapshot", "fetch", "read_file", "write_file", "shell"}

OpsOfStep(i) == [j \in 1..Len(CallsOfStep(i)) |-> CallsOfStep(i)[j].call.op]
DragOps == <<"mouse.move", "mouse.down", "mouse.move", "waitForTimeout", "mouse.up">>
LongPressOps == <<"mouse.move", "mouse.down", "waitForTimeout", "mouse.up">>
IsPrefix(a, b) == Len(a) <= Len(b) /\ a = SubSeq(b, 1, Len(a))

C33_GestureOrder ==
    \A k \in 1..Len(stepResults) :
        LET step == dispatched[k].step
            calls == CallsOfStep(k - 1)
        IN  /\ step.tool = "drag"
                  => /\ IsPrefix(OpsOfStep(k - 1), DragOps)
                     /\ stepResults[k] = "ok" => OpsOfStep(k - 1) = DragOps
                     /\ Len(calls) >= 3
                           => /\ "steps" \in DOMAIN calls[3].call /\ calls[3].call.steps = 10
                              /\ calls[1].call.at # NoPoint /\ calls[3].call.at # NoPoint
            /\ step.tool = "long_press"
                  => /\ IsPrefix(OpsOfStep(k - 1), LongPressOps)
                     /\ stepResults[k] = "ok" => OpsOfStep(k - 1) = LongPressOps

\* A drag and then a long press have both been carried out.
C33_Witness ==
    /\ stepResults = <<"ok", "ok">>
    /\ dispatched[1].step.tool = "drag"
    /\ dispatched[2].step.tool = "long_press"
    /\ OpsOfStep(0) = DragOps /\ OpsOfStep(1) = LongPressOps

(***************************************************************************)
(* scripts/ralph-loop.js: the loop runner.  ralph is a record of main's    *)
(* locals (tasks, iteration, task, ok, attempt), of the two option values  *)
(* read from the command line, of the results runGoal returned in the      *)
(* current iteration, and of the two files it writes.                      *)
(***************************************************************************)
DEFAULT_MAX_ITERATIONS == 10
DEFAULT_MAX_RETRIES == 1
README_DEFAULT_ITERATIONS == 5

\* Lines 12-17: flag(name, fallback).  The arguments of a flag are <<>> when
\* the flag is not on the command line, <<n>> when it is given the number n.
flag(given, fallback) == IF given = <<>> THEN fallback ELSE given[1]

\* Lines 20 and 26.
maxIterations(given) == flag(given, DEFAULT_MAX_ITERATIONS)
maxRetries(given) == flag(given, DEFAULT_MAX_RETRIES)

\* A task of the tasks file.
Task(id, passes) == [id |-> id, passes |-> passes]

Mutant_nextTask_failedOnly(tasks) ==
    LET open == {k \in 1..Len(tasks) : tasks[k].passes = Bool(FALSE)}
    IN  IF open = {} THEN 0 ELSE CHOOSE k \in open : \A j \in open : k <= j

\* Lines 59-61: nextTask(tasks), as the index of the task found; 0 is
\* undefined.
nextTask(tasks) ==
    LET open == {k \in 1..Len(tasks) :
                    tasks[k].passes = Bool(FALSE) \/ tasks[k].passes = Undefined}
    IN  IF open = {} THEN 0 ELSE CHOOSE k \in open : \A j \in open : k <= j

\* Line 84: the line appended to progress.txt (without its time stamp).
progressLine(ok, id) == [verdict |-> IF ok THEN "PASS" ELSE "FAIL", id |-> id]

MaxFlags == {<<>>, <<0>>, <<1>>, <<2>>}
RetryFlags == {<<>>, <<0>>, <<2>>}
PassValues == {Undefined, Bool(FALSE), Bool(TRUE)}
TaskFiles ==
    {<<>>}
    \cup {<<Task(1, a)>> : a \in PassValues}
    \cup {<<Task(1, a), Task(2, b)>> : a \in PassValues, b \in PassValues}

\* Lines 64-65: the state of main when it reaches the while loop.
InitRalph ==
    /\ InitState
    /\ confirmPlan = TRUE
    /\ profile = "default"
    /\ config = [kind |-> "none", doc |-> NoProfilesDoc]
    /\ precomputedPlan = <<>>
    /\ goalOk = TRUE
    /\ killSignal = "none"
    /\ confirmOriginChangeFn = TRUE
    /\ vIn = <<>>
    /\ vOut = <<>>
    /\ nIn = <<>>
    /\ nOut = <<>>
    /\ sIn = <<>>
    /\ sOut = <<>>
    /\ ralph \in {[pc |-> "while", max |-> m, retries |-> r, tasks |-> t,
                   iteration |-> 0, task |-> 0, ok |-> FALSE, attempt |-> 0,
                   attempts |-> <<>>, progress |-> <<>>, file |-> t] :
                  m \in MaxFlags, r \in RetryFlags, t \in TaskFiles}

\* Lines 66-75: the head of the while loop, up to the for loop.
RalphIterate ==
    /\ ralph # NoRalph
    /\ ralph.pc = "while"
    /\ ralph' =
         IF ~(ralph.iteration < maxIterations(ralph.max))
         THEN [ralph EXCEPT !.pc = "max_reached"]
         ELSE IF nextTask(ralph.tasks) = 0
         THEN [ralph EXCEPT !.pc = "complete"]
         ELSE [ralph EXCEPT !.pc = "for",
                            !.task = nextTask(ralph.tasks),
                            !.iteration = @ + 1,
                            !.ok = FALSE,
                            !.attempt = 0,
                            !.attempts = <<>>]
    /\ UNCHANGED <<runVars, vIn, vOut, nIn, nOut, sIn, sOut>>

\* Lines 76-82: one turn of the for loop; runGoal returns whether the child
\* process exited with status 0.
RalphAttempt ==
    /\ ralph # NoRalph
    /\ ralph.pc = "for"
    /\ IF ralph.attempt <= maxRetries(ralph.retries)
       THEN \E status0 \in BOOLEAN :
               ralph' = [ralph EXCEPT !.ok = status0,
                                      !.attempts = Append(@, status0),
                                      !.attempt = IF status0 THEN @ ELSE @ + 1,
                                      !.pc = IF status0 THEN "record" ELSE "for"]
       ELSE ralph' = [ralph EXCEPT !.pc = "record"]
    /\ UNCHANGED <<runVars, vIn, vOut, nIn, nOut, sIn, sOut>>

\* Lines 83-85: the task is marked, the line logged and the tasks saved.
RalphRecord ==
    /\ ralph # NoRalph
    /\ ralph.pc = "record"
    /\ LET marked == [ralph.tasks EXCEPT ![ralph.task].passes = Bool(ralph.ok)]
       IN  ralph' = [ralph EXCEPT
                       !.tasks = marked,
                       !.progress = Append(@, progressLine(ralph.ok,
                                                  ralph.tasks[ralph.task].id)),
                       !.file = marked,
                       !.pc = "while"]
    /\ UNCHANGED <<runVars, vIn, vOut, nIn, nOut, sIn, sOut>>

NextRalph ==
    \/ RalphIterate
    \/ RalphAttempt
    \/ RalphRecord

\* main is one synchronous flow of control: it goes on as long as it can (a
\* child process that never exits is not in the model).
SpecRalph == InitRalph /\ [][NextRalph]_vars /\ WF_vars(NextRalph)

(***************************************************************************)
(* C34.                                                                    *)
(***************************************************************************)
RalphEnded == ralph.pc \in {"complete", "max_reached"}

C34_Bounded ==
    /\ ralph.iteration <= maxIterations(ralph.max)
    /\ Len(ralph.attempts) <= maxRetries(ralph.retries) + 1
    /\ Len(ralph.progress) = ralph.iteration - (IF ralph.pc \in {"for", "record"} THEN 1 ELSE 0)
    /\ ralph.pc \in {"for", "record"}
         => /\ ralph.tasks[ralph.task].passes # Bool(TRUE)
            /\ \A j \in 1..(ralph.task - 1) : ralph.tasks[j].passes = Bool(TRUE)

C34_Recorded ==
    (ralph.pc = "record" /\ ralph'.pc = "while")
        => /\ ralph.attempts # <<>>
           /\ ralph'.tasks[ralph.task].passes
                 = Bool(ralph.attempts[Len(ralph.attempts)])
           /\ \A j \in 1..Len(ralph.tasks) :
                 j # ralph.task => ralph'.tasks[j] = ralph.tasks[j]
           /\ ralph'.file = ralph'.tasks
           /\ ralph'.progress =
                 Append(ralph.progress,
                        [verdict |-> IF ralph.attempts[Len(ralph.attempts)]
                                     THEN "PASS" ELSE "FAIL",
                         id |-> ralph.tasks[ralph.task].id])

C35_NonEmptyPlan ==
    /\ pc \in {"confirm", "loop", "exec"} => Len(plan.steps) >= 1
    /\ (result # <<>> /\ result[Len(result)].status = "ok") => Len(dispatched) >= 1

(***************************************************************************)
(* C36.                                                                    *)
(***************************************************************************)
\* The conversation of the request planGoal is about to send.
NextRequest == messages

\* C36: the first request carries the conversation buildMessages made; after
\* a rejected first response the second request carries exactly that
\* conversation, then the rejected output as an assistant message, then one
\* corrective user message.
C36_RetryConversation ==
    pc = "chat"
        => /\ attempt = 0 => NextRequest = buildMessages
           /\ attempt = 1
                => /\ Len(NextRequest) = Len(buildMessages) + 2
                   /\ SubSeq(NextRequest, 1, Len(buildMessages)) = buildMessages
                   /\ NextRequest[Len(buildMessages) + 1].role = "assistant"
                   /\ NextRequest[Len(buildMessages) + 1].content = lastRaw
                   /\ NextRequest[Len(buildMessages) + 2] = Corrective
           /\ attempt <= 1

C36_Witness ==
    /\ pc = "chat"
    /\ attempt = 1
    /\ lastRaw.kind = "json"
    /\ Len(messages) = 5

(***************************************************************************)
(* C37.                                                                    *)
(***************************************************************************)
\* The objects of the input plan before the call, and all objects after it.
ObjectsBefore == heapOf(NPlanIn)
ObjectsAfter == nOut[1].objects.heap
ReturnedPlan == nOut[1].objects.plan

\* Step k of the plan returned has a point that differs from the point the
\* step had in the input.
Repointed(k) ==
    LET out == stepAt(ObjectsAfter, ObjectsAfter[ObjectsAfter[ReturnedPlan].steps].items[k])
    IN  \A j \in 1..Len(NPlanIn.steps) : NPlanIn.steps[j] # out

\* C37: the call leaves every object of its input as it was (the plan, its
\* steps array, every step and every step's args); the plan it returns is
\* the normalized plan, and a step whose points were rescaled or clipped
\* is a new object with a new args object.
C37_InputUntouched ==
    nOut # <<>>
        => /\ \A a \in 1..Len(ObjectsBefore) : ObjectsAfter[a] = ObjectsBefore[a]
           /\ planAt(ObjectsAfter, 1) = NPlanIn
           /\ planAt(ObjectsAfter, ReturnedPlan) = NPlanOut
           /\ \A k \in 1..Len(NPlanOut.steps) :
                 LET s == ObjectsAfter[ObjectsAfter[ReturnedPlan].steps].items[k]
                 IN  Repointed(k)
                       => /\ s > Len(ObjectsBefore)
                          /\ ObjectsAfter[s].args > Len(ObjectsBefore)
                          /\ ReturnedPlan > Len(ObjectsBefore)
                          /\ ObjectsAfter[ReturnedPlan].steps > Len(ObjectsBefore)

C37_Witness ==
    /\ nOut # <<>>
    /\ NPage = DefaultPage
    /\ Len(NPlanIn.steps) = 2
    /\ NPlanIn.steps[1] = Step("click_point", ID_NONE, <<Num(1400000), Num(50000)>>)
    /\ NPlanIn.steps[2].tool = "drag"
    /\ Len(NPlanOut.steps) = 2
    /\ Repointed(1)
    /\ Repointed(2)
    /\ NPlanOut.steps[1].point = <<Num(1280000), Num(50000)>>


(***************************************************************************)
(* C38.                                                                    *)
(***************************************************************************)
ClosingOutcomes == {"planner_error", "policy_block", "rejected_by_user", "killed", "failed", "ok"}

ReturnedCalls(i) ==
    IF stepResults[i + 1] = "driver_error"
    THEN SubSeq(CallsOfStep(i), 1, Len(CallsOfStep(i)) - 1)
    ELSE CallsOfStep(i)

\* A press among the calls that no later call of the step releases.
LeftPressed(calls) ==
    \E j \in 1..Len(calls) :
        \/ /\ calls[j].call.op = "mouse.down"
           /\ \A m \in (j + 1)..Len(calls) : calls[m].call.op # "mouse.up"
        \/ /\ calls[j].call.op = "keyboard.down"
           /\ \A m \in (j + 1)..Len(calls) :
                 ~(calls[m].call.op = "keyboard.up" /\ calls[m].call.key = calls[j].call.key)

\* C39: when a run has ended, no step has left a mouse button or a key
\* pressed, a step in which a driver primitive failed included.
C39_NothingLeftPressed ==
    Done => \A k \in 1..Len(stepResults) : ~LeftPressed(ReturnedCalls(k - 1))


(***************************************************************************)
(* C40.                                                                    *)
(***************************************************************************)
\* C40: the origin that gates the next navigate is the origin of the
\* document the page shows: unset before the first navigation, the origin
\* of the final URL after a navigate, and still that of the page after a
\* step (a click, a hotkey) that made the page load another document.
C40_OriginOfPage == currentOrigin = pageOrigin

====
